---- MODULE Spec2Model ----
(***************************************************************************)
(* A model of the skillian/logging package: the logger registry            *)
(* (GetLogger / createLogger), the copy-on-write handler set               *)
(* (AddHandlers / RemoveHandlers / casHandlers), the per-logger pool       *)
(* (getArgs / getEvent / putEvent) and the dispatch path                   *)
(* (LogEvent / doLogEvent / EffectiveLevel).                               *)
(***************************************************************************)
EXTENDS Integers, Sequences, FiniteSets, Bags, TLC

(***************************************************************************)
(* Bounds of the model.                                                    *)
(***************************************************************************)
NumThreads == 2
MaxLoggers == 4

Threads == 1..NumThreads

(***************************************************************************)
(* Logger names are strings; a string is modelled as the tuple of its      *)
(* bytes so that createLogger's split on the last '/' is computed.         *)
(***************************************************************************)
NameA == <<"a">>
NameAB == <<"a", "/", "b">>
NameABC == <<"a", "/", "b", "/", "c">>
Names == {NameA, NameAB, NameABC}

\* a nil pointer (Go's nil *Logger, nil *Event, absent map entry)
Nil == 0

\* strings.LastIndexByte(name, c): the 1-based index of the last c, 0 when
\* there is none (Go: 0-based index, -1 when there is none)
RECURSIVE LastIndexFrom(_, _, _)
LastIndexFrom(name, c, i) ==
  IF i = 0 THEN 0
  ELSE IF name[i] = c THEN i
  ELSE LastIndexFrom(name, c, i - 1)

\* the index of the first c instead of the last
IndexByte(name, c) ==
  IF \E k \in 1..Len(name) : name[k] = c
    THEN CHOOSE k \in 1..Len(name) : name[k] = c /\ \A j \in 1..(k - 1) : name[j] # c
    ELSE 0

LastIndexByte(name, c) == LastIndexFrom(name, c, Len(name))

\* name[:splitAt] of createLogger, splitAt being the 1-based index of the '/'
ParentName(name) == SubSeq(name, 1, LastIndexByte(name, "/") - 1)

(***************************************************************************)
(* The flags word of a Logger (logFlags int32): the level in the low       *)
(* LevelBits bits, noPropagateFlag and temporaryFlag above them.  The      *)
(* word is kept as the signed number the int32 holds; the bitwise          *)
(* operators work on its two's complement pattern, where x % 2 is the low  *)
(* bit and x \div 2 the arithmetic shift by one, for negative x too.       *)
(***************************************************************************)
LevelBits == 8

Pow2(n) == 2 ^ n

RECURSIVE BitAnd(_, _)
BitAnd(x, y) ==
  IF x = 0 \/ y = 0 THEN 0
  ELSE IF x = -1 THEN y
  ELSE IF y = -1 THEN x
  ELSE (IF x % 2 = 1 /\ y % 2 = 1 THEN 1 ELSE 0) + 2 * BitAnd(x \div 2, y \div 2)

RECURSIVE BitOr(_, _)
BitOr(x, y) ==
  IF x = 0 THEN y
  ELSE IF y = 0 THEN x
  ELSE IF x = -1 \/ y = -1 THEN -1
  ELSE (IF x % 2 = 1 \/ y % 2 = 1 THEN 1 ELSE 0) + 2 * BitOr(x \div 2, y \div 2)

\* ^x
BitNot(x) == -1 - x

\* logFlags(level): the conversion of a Level to int32 extends its sign and
\* so keeps its value
ToWord(v) == v

\* a conversion to a Level as wide as the word, which keeps the value
ToLevelWide(w) == w

\* Level(w): the conversion of a word to the LevelBits-wide signed Level
ToLevel(w) ==
  LET low == w % Pow2(LevelBits)
  IN  IF low >= Pow2(LevelBits - 1) THEN low - Pow2(LevelBits) ELSE low

noPropagateFlag == Pow2(0 + LevelBits)
temporaryFlag == Pow2(1 + LevelBits)
levelMask == Pow2(LevelBits) - 1

VerboseLevel == (10 * 0) - 30
DebugLevel == (10 * 1) - 30
InfoLevel == (10 * 2) - 30
WarnLevel == (10 * 3) - 30
ErrorLevel == (10 * 4) - 30
FatalLevel == (10 * 5) - 30

VARIABLES
  loggers,    \* the heap of Logger objects: loggers[i] is the object at pointer i
  hslices,    \* the heap of []Handler values: hslices[p] is the slice *p
  registry,   \* the package variable loggers (sync.Map): name -> *Logger or Nil
  gstack,     \* per thread: the stack of GetLogger activations
  returned,   \* history: the (name, logger) of every GetLogger call that returned
  call,       \* per thread: the Logger method it is executing and its locals
  hist,       \* history: the bag of the AddHandlers/RemoveHandlers/Handlers calls made
  lin,        \* history: the calls whose compare-and-swap succeeded, in swap order
  events,     \* the heap of Event objects: events[e] is the object at pointer e
  arrays,     \* the heap of []interface{} backing arrays: arrays[a] holds cap slots
  emits,      \* history: per thread, the Emit calls of the log call it is in
  visits,     \* history: per thread, the doLogEvent calls of the log call it is in
  clock,      \* the number of log calls (the source of time.Now()) or of
              \* EffectiveLevel calls made so far
  sets        \* the number of SetLevel/SetPropagate calls and of GetLogger
              \* calls with options made so far

heapVars == <<loggers, hslices>>
regVars == <<registry, gstack, returned>>
hsVars == <<call, hist, lin>>
dispVars == <<events, arrays, emits, visits, clock, sets>>
vars ==
  <<loggers, hslices, registry, gstack, returned, call, hist, lin,
    events, arrays, emits, visits, clock, sets>>

\* a thread that is executing no Logger method
\* a nil []interface{}; a slice is the array it points into, its length and
\* its capacity (every slice of the package starts at the start of its array)
NilSlice == [arr |-> Nil, len |-> 0, cap |-> 0]

Idle ==
  [op |-> "idle", pc |-> "idle", L |-> Nil, hs |-> <<>>, old |-> Nil, new |-> Nil,
   tries |-> 0, cur |-> Nil, kind |-> "", lvl |-> 0, args |-> NilSlice, ev |-> Nil,
   i |-> 0, time |-> 0, method |-> "", given |-> <<>>,
   ok |-> FALSE]

(***************************************************************************)
(* The registry: GetLogger and createLogger.                               *)
(***************************************************************************)

\* the zero value of a free list (freeArgs, freeEvents): a nil slice; arr
\* holds the backing array up to its capacity, len the length of the slice
NoFreeList == [arr |-> <<>>, len |-> 0]

\* a Logger literal whose flags have noPropagateFlag set
NewLoggerNoPropagate(name, parent, hp) ==
  [name |-> name, parent |-> parent, flags |-> noPropagateFlag, handlersUnsafe |-> hp,
   freeArgs |-> NoFreeList, freeEvents |-> NoFreeList]

\* the Logger literal of createLogger; flags and pools are zero values
NewLogger(name, parent, hp) ==
  [name |-> name, parent |-> parent, flags |-> 0, handlersUnsafe |-> hp,
   freeArgs |-> NoFreeList, freeEvents |-> NoFreeList]

\* a GetLogger activation: its arguments name and options, its locals L,
\* errs (nil or not) and temp, the index k of the option the loop is at, and
\* where it stands (made: the Logger this activation built, logs: the LogErr
\* calls it made, for the history)
OptFrame(name, options) ==
  [name |-> name, L |-> Nil, pc |-> "load", made |-> Nil,
   opts |-> options, k |-> 1, errs |-> FALSE, temp |-> FALSE, logs |-> 0]

\* GetLogger(name): no options
Frame(name) == OptFrame(name, <<>>)

\* a GetLogger that goes to LoadOrStore without running its options
SkipOptions(options) == "store"
\* for _, opt := range options: the loop body runs when there is an option
AfterLoad(options) == IF options = <<>> THEN "store" ELSE "option"

\* the loop goes on to the next option whatever the last one returned
AfterOption(k, n, err) == IF k = n THEN "store" ELSE "option"

Top(t) == gstack[t][Len(gstack[t])]

SetTop(t, f) == [gstack EXCEPT ![t] = [@ EXCEPT ![Len(@)] = f]]

\* a store that overwrites the entry another caller put there first
LoadOrStoreOverwrites(m, k, v) == [m EXCEPT ![k] = v]

\* loggers.LoadOrStore(k, v): what the map holds after the call
LoadOrStore(m, k, v) == IF m[k] = Nil THEN [m EXCEPT ![k] = v] ELSE m

\* a caller invokes GetLogger(name)
GetLoggerCall(t, name) ==
  /\ gstack[t] = <<>>
  /\ gstack' = [gstack EXCEPT ![t] = <<Frame(name)>>]
  /\ UNCHANGED <<heapVars, registry, returned, hsVars, dispVars>>

\* v, loaded := loggers.Load(k); if loaded { L = v.(*Logger) }
GetLoggerLoad(t) ==
  /\ gstack[t] # <<>>
  /\ Top(t).pc = "load"
  /\ IF registry[Top(t).name] # Nil
       THEN gstack' = SetTop(t, [Top(t) EXCEPT !.L = registry[Top(t).name],
                                               !.pc = AfterLoad(Top(t).opts)])
       ELSE gstack' = SetTop(t, [Top(t) EXCEPT !.pc = "create"])
  /\ UNCHANGED <<heapVars, registry, returned, hsVars, dispVars>>

\* createLogger up to the recursive GetLogger(name[:splitAt]); without a
\* separator the Logger is built at once with a nil parent
createLogger(t) ==
  /\ gstack[t] # <<>>
  /\ Top(t).pc = "create"
  /\ IF LastIndexByte(Top(t).name, "/") # 0
       THEN /\ gstack' = [gstack EXCEPT ![t] =
                 Append([@ EXCEPT ![Len(@)].pc = "parent"], Frame(ParentName(Top(t).name)))]
            /\ UNCHANGED heapVars
       ELSE /\ Len(loggers) < MaxLoggers
            /\ hslices' = Append(hslices, <<>>)
            /\ loggers' = Append(loggers, NewLogger(Top(t).name, Nil, Len(hslices) + 1))
            /\ gstack' = SetTop(t, [Top(t) EXCEPT !.L = Len(loggers) + 1,
                                                 !.pc = AfterLoad(Top(t).opts),
                                                 !.made = Len(loggers) + 1])
  /\ UNCHANGED <<registry, returned, hsVars, dispVars>>

\* if !temp { v, loaded = loggers.LoadOrStore(k, v); if loaded { L = v.(*Logger) } }
GetLoggerStore(t) ==
  /\ gstack[t] # <<>>
  /\ Top(t).pc = "store"
  /\ registry' = IF Top(t).temp THEN registry
                 ELSE LoadOrStore(registry, Top(t).name, Top(t).L)
  /\ gstack' = SetTop(t, [Top(t) EXCEPT
                            !.L = IF Top(t).temp THEN @ ELSE registry'[Top(t).name],
                            !.pc = IF Top(t).errs THEN "logerr" ELSE "ret"])
  /\ UNCHANGED <<heapVars, returned, hsVars, dispVars>>

\* return L; when the caller is createLogger, it builds its Logger with the
\* returned parent
GetLoggerReturn(t) ==
  /\ gstack[t] # <<>>
  /\ Top(t).pc = "ret"
  /\ call[t].op = "idle"
  /\ returned' = returned \cup {[name |-> Top(t).name, L |-> Top(t).L]}
  /\ IF Len(gstack[t]) = 1
       THEN /\ gstack' = [gstack EXCEPT ![t] = <<>>]
            /\ UNCHANGED heapVars
       ELSE /\ Len(loggers) < MaxLoggers
            /\ hslices' = Append(hslices, <<>>)
            /\ loggers' = Append(loggers,
                 NewLogger(gstack[t][Len(gstack[t]) - 1].name, Top(t).L, Len(hslices) + 1))
            /\ gstack' = [gstack EXCEPT ![t] =
                 [SubSeq(gstack[t], 1, Len(gstack[t]) - 1)
                    EXCEPT ![Len(gstack[t]) - 1].L = Len(loggers) + 1,
                           ![Len(gstack[t]) - 1].pc =
                               AfterLoad(gstack[t][Len(gstack[t]) - 1].opts),
                           ![Len(gstack[t]) - 1].made = Len(loggers) + 1]]
  /\ UNCHANGED <<registry, hsVars, dispVars>>

InitRegistry ==
  /\ loggers = <<>>
  /\ hslices = <<>>
  /\ registry = [n \in Names |-> Nil]
  /\ gstack = [t \in Threads |-> <<>>]
  /\ returned = {}
  /\ call = [t \in Threads |-> Idle]
  /\ hist = EmptyBag
  /\ lin = <<>>
  /\ events = <<>>
  /\ arrays = <<>>
  /\ emits = [t \in Threads |-> <<>>]
  /\ visits = [t \in Threads |-> <<>>]
  /\ clock = 0
  /\ sets = 0

NextRegistry ==
  \E t \in Threads :
    \/ \E name \in Names : GetLoggerCall(t, name)
    \/ GetLoggerLoad(t)
    \/ createLogger(t)
    \/ GetLoggerStore(t)
    \/ GetLoggerReturn(t)

SpecRegistry == InitRegistry /\ [][NextRegistry]_vars

\* C1: any two GetLogger calls that returned for one name, racing or one
\* after the other, returned the same Logger instance, and that instance is
\* the one the registry holds for the name.
SameInstancePerName ==
  \A r \in returned :
    /\ registry[r.name] = r.L
    /\ \A q \in returned : q.name = r.name => q.L = r.L

\* two first-time GetLogger calls raced on a name: the winner has returned,
\* and the loser, which built a Logger of its own, is about to return
RaceReturned ==
  \E t \in Threads :
    /\ gstack[t] # <<>>
    /\ Top(t).pc = "ret"
    /\ Top(t).made # Nil
    /\ Top(t).L # Top(t).made
    /\ [name |-> Top(t).name, L |-> Top(t).L] \in returned

(***************************************************************************)
(* The handler set: AddHandlers, RemoveHandlers, Handlers over the         *)
(* atomically loaded and swapped pointer handlersUnsafe.                   *)
(***************************************************************************)
NumHandlers == 2
MaxWrites == 2
MaxReads == 1

Handlers == 1..NumHandlers

\* the zero value of a Handler slot in a slice that make() returned
NilHandler == 0

\* the argument lists hs... of the calls of the model
HandlerArgs == {<<>>} \cup {<<h>> : h \in Handlers} \cup {<<1, 2>>}

\* atomic.LoadPointer(&L.handlersUnsafe)
handlersPtr(L) == loggers[L].handlersUnsafe

\* a swap that does not compare
casHandlersBlind(L, old) == TRUE

\* atomic.CompareAndSwapPointer(&L.handlersUnsafe, old, new): whether it swaps
casHandlers(L, old) == loggers[L].handlersUnsafe = old

\* building in the slice that is published
BuildTargetInPlace(new, old) == old

\* the slice the writers build the new sequence in: *newHandlers
BuildTarget(new, old) == new

\* copy(dst, src): dst with its first min(len) elements taken from src
Copy(dst, src) ==
  [i \in 1..Len(dst) |-> IF i <= Len(src) THEN src[i] ELSE dst[i]]

\* a copy to the start of dst whatever the offset
CopyAtStart(dst, at, src) ==
  [i \in 1..Len(dst) |-> IF i <= Len(src) THEN src[i] ELSE dst[i]]

\* copy(dst[at:], src), at a 0-based offset
CopyAt(dst, at, src) ==
  [i \in 1..Len(dst) |-> IF i > at /\ i - at <= Len(src) THEN src[i - at] ELSE dst[i]]

\* the resize of *newHandlers in AddHandlers: a fresh zeroed slice when it is
\* too short, the reslice [:newLength] otherwise
Resize(cur, newLength) ==
  IF Len(cur) < newLength
    THEN [i \in 1..newLength |-> NilHandler]
    ELSE SubSeq(cur, 1, newLength)

\* a comparison with the first victim only
MatchesFirst(h, hs) == hs # <<>> /\ hs[1] = h

\* whether h is among hs (the inner loop of RemoveHandlers: oldH == newH)
Matches(h, hs) == \E j \in 1..Len(hs) : hs[j] = h

\* the loop of RemoveHandlers: the handlers of old that match no victim
RECURSIVE Filter(_, _)
Filter(old, hs) ==
  IF old = <<>> THEN <<>>
  ELSE IF Matches(Head(old), hs) THEN Filter(Tail(old), hs)
  ELSE <<Head(old)>> \o Filter(Tail(old), hs)

\* the calls of a bag, listed in some order
RECURSIVE CallsOf(_)
CallsOf(b) ==
  IF b = EmptyBag THEN <<>>
  ELSE LET o == CHOOSE x \in BagToSet(b) : TRUE
       IN  <<o>> \o CallsOf(b (-) SetToBag({o}))

ReadCall(L) == [kind |-> "read", hs |-> <<>>, L |-> L]

\* the numbers of Handlers() calls and of AddHandlers/RemoveHandlers calls made
ReadsMade == BagCardinality([o \in {x \in BagToSet(hist) : x.kind = "read"} |-> hist[o]])
WritesMade == BagCardinality(hist) - ReadsMade

WritesLeft == WritesMade < MaxWrites
ReadsLeft == ReadsMade < MaxReads

\* AddHandlers up to the loop: the length test and newHandlers := new([]Handler)
AddHandlersCall(t, L, hs) ==
  /\ call[t].op = "idle"
  /\ gstack[t] = <<>>
  /\ WritesLeft
  /\ hist' = hist (+) SetToBag({[kind |-> "add", hs |-> hs, L |-> L]})
  /\ IF Len(hs) = 0
       THEN /\ UNCHANGED <<call, hslices>>
       ELSE /\ hslices' = Append(hslices, <<>>)
            /\ call' = [call EXCEPT ![t] =
                 [Idle EXCEPT !.op = "AddHandlers", !.pc = "read", !.L = L, !.hs = hs,
                              !.new = Len(hslices) + 1]]
  /\ UNCHANGED <<loggers, regVars, lin, dispVars>>

\* oldHandlers := L.handlersPtr()
AddHandlersRead(t) ==
  /\ call[t].op = "AddHandlers"
  /\ call[t].pc = "read"
  /\ call' = [call EXCEPT ![t].old = handlersPtr(call[t].L), ![t].pc = "resize"]
  /\ UNCHANGED <<heapVars, regVars, hist, lin, dispVars>>

\* the resize of *newHandlers and copy(*newHandlers, *oldHandlers)
AddHandlersResize(t) ==
  /\ call[t].op = "AddHandlers"
  /\ call[t].pc = "resize"
  /\ LET old == hslices[call[t].old]
         tgt == BuildTarget(call[t].new, call[t].old)
     IN  hslices' = [hslices EXCEPT ![tgt] =
                       Copy(Resize(hslices[tgt], Len(old) + Len(call[t].hs)), old)]
  /\ call' = [call EXCEPT ![t].pc = "copy"]
  /\ UNCHANGED <<loggers, regVars, hist, lin, dispVars>>

\* copy((*newHandlers)[len(*oldHandlers):], hs)
AddHandlersCopy(t) ==
  /\ call[t].op = "AddHandlers"
  /\ call[t].pc = "copy"
  /\ LET tgt == BuildTarget(call[t].new, call[t].old)
     IN  hslices' = [hslices EXCEPT ![tgt] =
                       CopyAt(hslices[tgt], Len(hslices[tgt]) - Len(call[t].hs), call[t].hs)]
  /\ call' = [call EXCEPT ![t].pc = "cas"]
  /\ UNCHANGED <<loggers, regVars, hist, lin, dispVars>>

\* a loop that builds again from the slice it read before the failed swap
RetryWithoutRead(op) == IF op = "AddHandlers" THEN "resize" ELSE "filter"

\* where the loop goes on after a failed swap: both loops load the pointer
\* again, oldHandlers := L.handlersPtr(), before they build the new slice
AfterFailedSwap(op) == "read"

\* if L.casHandlers(oldHandlers, newHandlers) { return }; else the loop repeats
AddHandlersCas(t) ==
  /\ call[t].op = "AddHandlers"
  /\ call[t].pc = "cas"
  /\ IF casHandlers(call[t].L, call[t].old)
       THEN /\ loggers' = [loggers EXCEPT ![call[t].L].handlersUnsafe = call[t].new]
            /\ lin' = Append(lin, [kind |-> "add", hs |-> call[t].hs, L |-> call[t].L,
                                     tries |-> call[t].tries])
            /\ call' = [call EXCEPT ![t] = Idle]
       ELSE /\ call' = [call EXCEPT ![t].pc = AfterFailedSwap(call[t].op),
                                    ![t].tries = @ + 1]
            /\ UNCHANGED <<loggers, lin>>
  /\ UNCHANGED <<hslices, regVars, hist, dispVars>>

\* RemoveHandlers up to the loop: the length test, the first handlersPtr(),
\* the emptiness test and newHandlers := new([]Handler)
RemoveHandlersCall(t, L, hs) ==
  /\ call[t].op = "idle"
  /\ gstack[t] = <<>>
  /\ WritesLeft
  /\ hist' = hist (+) SetToBag({[kind |-> "remove", hs |-> hs, L |-> L]})
  /\ IF Len(hs) = 0
       THEN UNCHANGED call
       ELSE call' = [call EXCEPT ![t] =
              [Idle EXCEPT !.op = "RemoveHandlers", !.pc = "read", !.L = L, !.hs = hs]]
  /\ UNCHANGED <<heapVars, regVars, lin, dispVars>>

\* oldHandlers := L.handlersPtr() before the loop, where an empty slice ends
\* the call and newHandlers := new([]Handler) follows, and
\* oldHandlers = L.handlersPtr() after a failed swap
RemoveHandlersRead(t) ==
  /\ call[t].op = "RemoveHandlers"
  /\ call[t].pc = "read"
  /\ IF call[t].tries = 0
       THEN IF Len(hslices[handlersPtr(call[t].L)]) = 0
              THEN /\ call' = [call EXCEPT ![t] = Idle]
                   /\ UNCHANGED hslices
              ELSE /\ hslices' = Append(hslices, <<>>)
                   /\ call' = [call EXCEPT ![t].old = handlersPtr(call[t].L),
                                           ![t].new = Len(hslices) + 1,
                                           ![t].pc = "filter"]
       ELSE /\ call' = [call EXCEPT ![t].old = handlersPtr(call[t].L), ![t].pc = "filter"]
            /\ UNCHANGED hslices
  /\ UNCHANGED <<loggers, regVars, hist, lin, dispVars>>

\* *newHandlers = make([]Handler, 0, len(*oldHandlers)) and the filter loop
RemoveHandlersFilter(t) ==
  /\ call[t].op = "RemoveHandlers"
  /\ call[t].pc = "filter"
  /\ hslices' = [hslices EXCEPT ![BuildTarget(call[t].new, call[t].old)] =
                   Filter(hslices[call[t].old], call[t].hs)]
  /\ call' = [call EXCEPT ![t].pc = "cas"]
  /\ UNCHANGED <<loggers, regVars, hist, lin, dispVars>>

\* if L.casHandlers(oldHandlers, newHandlers) { return }
RemoveHandlersCas(t) ==
  /\ call[t].op = "RemoveHandlers"
  /\ call[t].pc = "cas"
  /\ IF casHandlers(call[t].L, call[t].old)
       THEN /\ loggers' = [loggers EXCEPT ![call[t].L].handlersUnsafe = call[t].new]
            /\ lin' = Append(lin, [kind |-> "remove", hs |-> call[t].hs, L |-> call[t].L,
                                     tries |-> call[t].tries])
            /\ call' = [call EXCEPT ![t] = Idle]
       ELSE /\ call' = [call EXCEPT ![t].pc = AfterFailedSwap(call[t].op),
                                    ![t].tries = @ + 1]
            /\ UNCHANGED <<loggers, lin>>
  /\ UNCHANGED <<hslices, regVars, hist, dispVars>>

\* Handlers(): p := L.handlersPtr()
HandlersCall(t, L) ==
  /\ call[t].op = "idle"
  /\ gstack[t] = <<>>
  /\ ReadsLeft
  /\ hist' = hist (+) SetToBag({ReadCall(L)})
  /\ call' = [call EXCEPT ![t] =
       [Idle EXCEPT !.op = "Handlers", !.pc = "copy", !.L = L, !.old = handlersPtr(L)]]
  /\ UNCHANGED <<heapVars, regVars, lin, dispVars>>

\* Handlers(): hs := make([]Handler, len(*p)); copy(hs, *p)
HandlersCopy(t) ==
  /\ call[t].op = "Handlers"
  /\ call[t].pc = "copy"
  /\ call' = [call EXCEPT ![t].hs = Copy([i \in 1..Len(hslices[call[t].old]) |-> NilHandler],
                                        hslices[call[t].old]),
                          ![t].pc = "ret"]
  /\ UNCHANGED <<heapVars, regVars, hist, lin, dispVars>>

\* Handlers(): return hs
HandlersReturn(t) ==
  /\ call[t].op = "Handlers"
  /\ call[t].pc = "ret"
  /\ call' = [call EXCEPT ![t] = Idle]
  /\ UNCHANGED <<heapVars, regVars, hist, lin, dispVars>>

\* the handler sequences the logger starts with: what earlier AddHandlers
\* calls left
InitialSequences == {<<>>, <<1>>, <<2, 1>>}

\* one logger, "a", made by GetLogger("a"), after AddHandlers(init...)
InitHandlers ==
  /\ loggers = <<NewLogger(NameA, Nil, 1)>>
  /\ \E init \in InitialSequences :
       /\ hslices = <<init>>
       /\ lin = <<[kind |-> "add", hs |-> init, L |-> 1, tries |-> 0]>>
  /\ registry = [n \in Names |-> IF n = NameA THEN 1 ELSE Nil]
  /\ gstack = [t \in Threads |-> <<>>]
  /\ returned = {}
  /\ call = [t \in Threads |-> Idle]
  /\ hist = EmptyBag
  /\ events = <<>>
  /\ arrays = <<>>
  /\ emits = [t \in Threads |-> <<>>]
  /\ visits = [t \in Threads |-> <<>>]
  /\ clock = 0
  /\ sets = 0

NextHandlers ==
  \E t \in Threads :
    \/ \E L \in DOMAIN loggers, hs \in HandlerArgs : AddHandlersCall(t, L, hs)
    \/ AddHandlersRead(t)
    \/ AddHandlersResize(t)
    \/ AddHandlersCopy(t)
    \/ AddHandlersCas(t)
    \/ \E L \in DOMAIN loggers, hs \in HandlerArgs : RemoveHandlersCall(t, L, hs)
    \/ RemoveHandlersFilter(t)
    \/ RemoveHandlersCas(t)
    \/ RemoveHandlersRead(t)
    \/ \E L \in DOMAIN loggers : HandlersCall(t, L)
    \/ HandlersCopy(t)
    \/ HandlersReturn(t)

SpecHandlers == InitHandlers /\ [][NextHandlers]_vars

\* one call applied to a handler sequence, alone
ApplyOp(seq, o) ==
  CASE o.kind = "add" -> seq \o o.hs
    [] o.kind = "remove" -> Filter(seq, o.hs)
    [] o.kind = "read" -> seq

\* the calls ops[order[1]], ops[order[2]], ... applied one at a time from seq
RECURSIVE ApplyInOrder(_, _, _, _)
ApplyInOrder(seq, ops, order, k) ==
  IF k > Len(ops) THEN seq
  ELSE ApplyInOrder(ApplyOp(seq, ops[order[k]]), ops, order, k + 1)

AllIdle == \A t \in Threads : call[t].op = "idle"

\* C2: once every AddHandlers/RemoveHandlers call has returned, the handler
\* sequence of the logger is what the calls made give when they are applied
\* one at a time, in some order, to the sequence the logger started with.
HandlerSetLinearizable ==
  AllIdle =>
    \E order \in Permutations(1..BagCardinality(hist)) :
      hslices[handlersPtr(1)] = ApplyInOrder(lin[1].hs, CallsOf(hist), order, 1)

\* a RemoveHandlers call lost a compare-and-swap to another writer, rebuilt
\* its slice and swapped it in, and every call has returned
ContendedAndDone ==
  /\ AllIdle
  /\ WritesMade = MaxWrites
  /\ \E j \in 1..Len(lin) : lin[j].kind = "remove" /\ lin[j].tries >= 1

\* the handler sequence of logger L after the first k successful swaps
RECURSIVE SequenceAfter(_, _)
SequenceAfter(L, k) ==
  IF k = 0 THEN <<>>
  ELSE IF lin[k].L = L THEN ApplyOp(SequenceAfter(L, k - 1), lin[k])
  ELSE SequenceAfter(L, k - 1)

\* the sequences L's handler set stood at before or after a complete call
CompleteSequences(L) == {SequenceAfter(L, k) : k \in 0..Len(lin)}

\* C3: the sequence under the pointer a reader loaded, and the sequence
\* Handlers() returns, is the handler sequence as it stood before or after
\* a complete AddHandlers/RemoveHandlers call, never one being built.
ReadersSeeCompleteSequences ==
  \A t \in Threads :
    call[t].op = "Handlers" =>
      /\ hslices[call[t].old] \in CompleteSequences(call[t].L)
      /\ call[t].pc = "ret" => call[t].hs \in CompleteSequences(call[t].L)

\* a reader holds a loaded pointer while a writer that lost a swap is rebuilding
\* its slice, which holds a sequence that no complete call produced
ReaderDuringRebuild ==
  \E t, u \in Threads :
    /\ call[t].op = "Handlers"
    /\ call[u].op = "AddHandlers"
    /\ call[u].pc = "copy"
    /\ call[u].tries >= 1
    /\ hslices[call[u].new] \notin CompleteSequences(1)

(***************************************************************************)
(* The pool of a logger: getArgs, getEvent, putEvent over the free lists   *)
(* freeArgs and freeEvents, which the mutex p.mu makes atomic.             *)
(***************************************************************************)
ifacePerCacheLine == 4

\* the capacity append gives a full slice of capacity cap that must hold
\* need elements (the runtime doubles small slices)
GrowCap(cap, need) == IF need > 2 * cap THEN need ELSE 2 * cap

Zeros(n, z) == [i \in 1..n |-> z]

\* append(fl, x) on a free list
AppendFree(fl, x, z) ==
  IF fl.len < Len(fl.arr)
    THEN [arr |-> [fl.arr EXCEPT ![fl.len + 1] = x], len |-> fl.len + 1]
    ELSE [arr |-> SubSeq(fl.arr, 1, fl.len) \o <<x>>
                    \o Zeros(GrowCap(Len(fl.arr), fl.len + 1) - fl.len - 1, z),
          len |-> fl.len + 1]

\* the length of an empty free list after
\* fl = append(fl[:cap(fl)], nil); fl = fl[:cap(fl)]
RefillLen(fl) == GrowCap(Len(fl.arr), Len(fl.arr) + 1)

\* a refill that sets only the slot that append added and keeps the rest
RefillEventsKeepsOld(fl, base) ==
  [arr |-> [i \in 1..RefillLen(fl) |-> IF i <= Len(fl.arr) THEN fl.arr[i] ELSE base + i],
   len |-> RefillLen(fl)]

\* getEvent on an empty free list: every slot of the regrown list is set to
\* an element of cache := make([]Event, len(p.freeEvents)), the Events at
\* base+1 .. base+len
RefillEvents(fl, base) ==
  [arr |-> [i \in 1..RefillLen(fl) |-> base + i], len |-> RefillLen(fl)]

\* the zero Event
ZeroEvent ==
  [Name |-> <<>>, Time |-> 0, Level |-> 0, Msg |-> "", Args |-> NilSlice,
   FuncName |-> "", File |-> "", Line |-> 0]

\* whether the slice expressions cache[start:start:end] of getArgs stay within
\* cap(cache) = n + ifacePerCacheLine - 1 for every i < n
CacheSlicesInRange(n) ==
  \A i \in 0..(n - 1) :
    i * ifacePerCacheLine + ifacePerCacheLine <= n + (ifacePerCacheLine - 1)

\* append(s, vs...): the slice and the heap of arrays after it
AppendArgs(heap, s, vs) ==
  IF s.len + Len(vs) <= s.cap
    THEN [s |-> [s EXCEPT !.len = @ + Len(vs)],
          heap |-> [heap EXCEPT ![s.arr] =
                      [i \in DOMAIN @ |->
                         IF i \in (s.len + 1)..(s.len + Len(vs)) THEN vs[i - s.len]
                         ELSE @[i]]]]
    ELSE [s |-> [arr |-> Len(heap) + 1, len |-> s.len + Len(vs),
                 cap |-> GrowCap(s.cap, s.len + Len(vs))],
          heap |-> Append(heap,
                     (IF s.arr = Nil THEN <<>> ELSE SubSeq(heap[s.arr], 1, s.len))
                       \o vs
                       \o Zeros(GrowCap(s.cap, s.len + Len(vs)) - s.len - Len(vs), Nil))]

\* the values of event.Args as a handler reads them
ArgValues(s) == IF s.arr = Nil THEN <<>> ELSE SubSeq(arrays[s.arr], 1, s.len)

\* what a handler reads from the *Event given to Emit
Contents(e) ==
  [Name |-> events[e].Name, Time |-> events[e].Time, Level |-> events[e].Level,
   Msg |-> events[e].Msg, Args |-> ArgValues(events[e].Args)]

(***************************************************************************)
(* The flags word of a logger: Level, SetLevel, Propagate, SetPropagate.   *)
(***************************************************************************)
\* Level(L.flags & levelMask)
LevelOf(flags) == ToLevel(BitAnd(flags, levelMask))

\* L.flags.load()&noPropagateFlag == 0
PropagateOf(flags) == BitAnd(flags, noPropagateFlag) = 0

\* (oldFlags & ^levelMask) | logFlags(level)
SetLevelFlags(oldFlags, level) ==
  BitOr(BitAnd(oldFlags, BitNot(levelMask)), ToWord(level))

\* fs.set(noPropagateFlag) for SetPropagate(false), fs.unset(noPropagateFlag)
\* for SetPropagate(true)
SetPropagateFlags(old, v) ==
  IF v THEN BitAnd(old, BitNot(noPropagateFlag)) ELSE BitOr(old, noPropagateFlag)

\* the calls made so far that change the configuration of a logger
MaxChanges == 1
Changes == sets + WritesMade
SetLevels == {InfoLevel, ErrorLevel}

SetLevelCall(t, L, level) ==
  /\ call[t].op = "idle"
  /\ sets' = sets + 1
  /\ call' = [call EXCEPT ![t] =
                [Idle EXCEPT !.op = "SetLevel", !.pc = "load", !.L = L, !.lvl = level]]
  /\ UNCHANGED <<heapVars, regVars, hist, lin, events, arrays, emits, visits, clock>>

SetLevelLoad(t) ==
  /\ call[t].op = "SetLevel"
  /\ call[t].pc = "load"
  /\ call' = [call EXCEPT ![t].pc = "cas",
                          ![t].old = loggers[call[t].L].flags,
                          ![t].new = SetLevelFlags(loggers[call[t].L].flags, call[t].lvl)]
  /\ UNCHANGED <<heapVars, regVars, hist, lin, dispVars>>

SetLevelCas(t) ==
  /\ call[t].op = "SetLevel"
  /\ call[t].pc = "cas"
  /\ IF loggers[call[t].L].flags = call[t].old
       THEN /\ loggers' = [loggers EXCEPT ![call[t].L].flags = call[t].new]
            /\ call' = [call EXCEPT ![t] = Idle]
       ELSE /\ call' = [call EXCEPT ![t].pc = "load"]
            /\ UNCHANGED loggers
  /\ UNCHANGED <<hslices, regVars, hist, lin, dispVars>>

SetPropagateCall(t, L, v) ==
  /\ call[t].op = "idle"
  /\ sets' = sets + 1
  /\ call' = [call EXCEPT ![t] =
                [Idle EXCEPT !.op = "SetPropagate", !.pc = "load", !.L = L,
                             !.kind = IF v THEN "unset" ELSE "set"]]
  /\ UNCHANGED <<heapVars, regVars, hist, lin, events, arrays, emits, visits, clock>>

SetPropagateLoad(t) ==
  /\ call[t].op = "SetPropagate"
  /\ call[t].pc = "load"
  /\ call' = [call EXCEPT ![t].pc = "cas",
                          ![t].old = loggers[call[t].L].flags,
                          ![t].new = SetPropagateFlags(loggers[call[t].L].flags,
                                                       call[t].kind = "unset")]
  /\ UNCHANGED <<heapVars, regVars, hist, lin, dispVars>>

SetPropagateCas(t) ==
  /\ call[t].op = "SetPropagate"
  /\ call[t].pc = "cas"
  /\ IF loggers[call[t].L].flags = call[t].old
       THEN /\ loggers' = [loggers EXCEPT ![call[t].L].flags = call[t].new]
            /\ call' = [call EXCEPT ![t] = Idle]
       ELSE /\ call' = [call EXCEPT ![t].pc = "load"]
            /\ UNCHANGED loggers
  /\ UNCHANGED <<hslices, regVars, hist, lin, dispVars>>

(***************************************************************************)
(* A log call: Log (variadic, with a slice of the caller), Log0 and Log1   *)
(* create the event from the pool of the logger, LogEvent dispatches it    *)
(* with doLogEvent up the parent chain and puts it back.                   *)
(***************************************************************************)
MaxCalls == 3
MaxDispatchCalls == 1
EventLevels == {InfoLevel, WarnLevel}
LogKinds == {"log", "log0", "log1"}

\* the loggers the log calls are made on: "a/b/c", whose events can reach
\* "a/b" and "a"
Origins == {3}

\* the []interface{} a caller keeps and passes as args... to Log: arrays[1],
\* of more arguments than Log4 takes
CallerLen == 5
CallerSlice == [arr |-> 1, len |-> CallerLen, cap |-> CallerLen]
\* the value the caller keeps in it; Log1 passes the number of the call
CallerArg == MaxCalls + 1
CallerArray == [i \in 1..CallerLen |-> CallerArg]

Panicked == \E t \in Threads : call[t].pc = "panic"
Holding(t) == call[t].op = "log" /\ call[t].ev # Nil

\* the number of arguments of log0 .. log4
Arity(kind) ==
  CASE kind = "log0" -> 0
    [] kind = "log1" -> 1
    [] kind = "log2" -> 2
    [] kind = "log3" -> 3
    [] kind = "log4" -> 4

\* arg0 .. arg3 of a call of log1 .. log4 made at the given time: values of
\* this call alone, each different from the others
GivenArgs(kind, time) == [i \in 1..Arity(kind) |-> time + (i - 1) * CallerArg]

\* the level a method of the Logger passes to log, log0 .. log4: its own
\* level, or for Log, Log0 .. Log4 the level of the caller
MethodLevel(method, level) ==
  CASE method = "Verbose" -> VerboseLevel
    [] method = "Debug" -> DebugLevel
    [] method = "Info" -> InfoLevel
    [] method = "Warn" -> WarnLevel
    [] method = "Error" -> ErrorLevel
    [] method = "Log" -> level

\* L.Verbose(msg, args...), L.Verbose0(msg) .. L.Error4(msg, arg0 .. arg3),
\* L.Log(level, msg, args...) .. L.Log4(level, msg, arg0 .. arg3): the call
\* of log, log0 .. log4 up to createEventNFromCaller; method and given keep
\* the method called and the values of the arguments at the call
MethodCall(t, L, method, kind, level) ==
  /\ call[t].op = "idle"
  /\ clock' = clock + 1
  /\ call' = [call EXCEPT ![t] =
       [Idle EXCEPT !.op = "log", !.L = L, !.method = method, !.kind = kind,
                    !.lvl = MethodLevel(method, level),
                    !.time = clock + 1,
                    !.given = IF kind = "log" THEN ArgValues(CallerSlice)
                              ELSE GivenArgs(kind, clock + 1),
                    !.pc = IF kind \in {"log", "log0"} THEN "create" ELSE "getargs",
                    !.args = IF kind = "log" THEN CallerSlice ELSE NilSlice]]
  /\ UNCHANGED <<heapVars, regVars, hist, lin, events, arrays, emits, visits, sets>>

\* L.Log(level, msg, args...), L.Log0(level, msg), L.Log1(level, msg, arg0)
LogCall(t, L, kind, level) == MethodCall(t, L, "Log", kind, level)

\* the caller of Log stores its value in its slice again, s[i] = v, while
\* none of its Log(level, msg, s...) calls is running
CallerRefill ==
  /\ \A t \in Threads : ~(call[t].op = "log" /\ call[t].kind = "log")
  /\ arrays[CallerSlice.arr] # CallerArray
  /\ arrays' = [arrays EXCEPT ![CallerSlice.arr] = CallerArray]
  /\ UNCHANGED <<heapVars, regVars, hsVars, events, emits, visits, clock, sets>>

\* createEvent1FromCaller .. createEvent4FromCaller:
\* s := append(L.pools.getArgs(), arg0, ...)
createEvent1FromCaller(t) ==
  /\ call[t].op = "log"
  /\ call[t].pc = "getargs"
  /\ LET L == call[t].L
         fl == loggers[L].freeArgs
         n == RefillLen(fl)
     IN  IF fl.len = 0 /\ ~CacheSlicesInRange(n)
           THEN /\ call' = [call EXCEPT ![t].pc = "panic"]
                /\ UNCHANGED <<loggers, arrays>>
           ELSE LET heap == IF fl.len = 0
                              THEN Append(arrays, Zeros(n + (ifacePerCacheLine - 1), Nil))
                              ELSE arrays
                    full == IF fl.len = 0
                              THEN [arr |-> [i \in 1..n |->
                                              [arr |-> Len(arrays) + 1, len |-> 0,
                                               cap |-> ifacePerCacheLine]],
                                    len |-> n]
                              ELSE fl
                    r == AppendArgs(heap, full.arr[full.len],
                                    GivenArgs(call[t].kind, call[t].time))
                IN  /\ loggers' = [loggers EXCEPT ![L].freeArgs =
                                     [full EXCEPT !.len = @ - 1]]
                    /\ arrays' = r.heap
                    /\ call' = [call EXCEPT ![t].pc = "create", ![t].args = r.s]
  /\ UNCHANGED <<hslices, regVars, hist, lin, events, emits, visits, clock, sets>>

\* event := L.pools.getEvent() and the assignments to its fields
CreateEvent(t) ==
  /\ call[t].op = "log"
  /\ call[t].pc = "create"
  /\ LET L == call[t].L
         fl == loggers[L].freeEvents
         full == IF fl.len = 0 THEN RefillEvents(fl, Len(events)) ELSE fl
         heap == IF fl.len = 0 THEN events \o Zeros(full.len, ZeroEvent) ELSE events
         ev == full.arr[full.len]
     IN  /\ loggers' = [loggers EXCEPT ![L].freeEvents = [full EXCEPT !.len = @ - 1]]
         /\ events' = [heap EXCEPT ![ev] =
                         [Name |-> loggers[L].name, Time |-> call[t].time,
                          Level |-> call[t].lvl, Msg |-> "msg", Args |-> call[t].args,
                          FuncName |-> "caller", File |-> "caller.go", Line |-> 1]]
         /\ call' = [call EXCEPT ![t].pc = "level", ![t].ev = ev, ![t].cur = L]
  /\ UNCHANGED <<hslices, regVars, hist, lin, arrays, emits, visits, clock, sets>>

\* the condition of doLogEvent for handing the event to the handlers
LevelEnabledStrict(eventLevel, loggerLevel) == eventLevel > loggerLevel
LevelEnabledAlways(eventLevel, loggerLevel) == TRUE
LevelEnabled(eventLevel, loggerLevel) == eventLevel >= loggerLevel

\* the condition of doLogEvent for handing the event to the parent
ShouldPropagateAlways(parent, propagate) == parent # Nil
ShouldPropagate(parent, propagate) == parent # Nil /\ propagate

\* the i-th handler that range visits in a slice of n handlers
RangeIndexReversed(i, n) == n + 1 - i
RangeIndex(i, n) == i

SetLast(seq, v) == [seq EXCEPT ![Len(seq)] = v]
Last(seq) == seq[Len(seq)]

\* a doLogEvent that returns when the event is below the level
ReturnBelowLevel(enabled) == IF enabled THEN "handlers" ELSE "put"
\* where doLogEvent goes on after the test of the level: into the loop over
\* the handlers, or past it to the test of the parent and the propagation
AfterLevel(enabled) == IF enabled THEN "handlers" ELSE "propagate"

\* doLogEvent: if e.Level >= L.Level()
doLogEventLevel(t) ==
  /\ call[t].op = "log"
  /\ call[t].pc = "level"
  /\ LET level == LevelOf(loggers[call[t].cur].flags)
         enabled == LevelEnabled(events[call[t].ev].Level, level)
     IN  /\ visits' = [visits EXCEPT ![t] =
                         Append(@, [L |-> call[t].cur, level |-> level,
                                    read |-> FALSE, snap |-> <<>>,
                                    prop |-> "unread"])]
         /\ call' = [call EXCEPT ![t].pc = AfterLevel(enabled)]
  /\ UNCHANGED <<heapVars, regVars, hist, lin, events, arrays, emits, clock, sets>>

\* doLogEvent: range *L.handlersPtr() evaluates the slice once
doLogEventHandlers(t) ==
  /\ call[t].op = "log"
  /\ call[t].pc = "handlers"
  /\ LET ptr == handlersPtr(call[t].cur)
     IN  /\ visits' = [visits EXCEPT ![t] = SetLast(@, [Last(@) EXCEPT !.read = TRUE, !.snap = hslices[ptr]])]
         /\ call' = [call EXCEPT ![t].old = ptr, ![t].i = 1,
                       ![t].pc = IF Len(hslices[ptr]) = 0 THEN "propagate" ELSE "emit"]
  /\ UNCHANGED <<heapVars, regVars, hist, lin, events, arrays, emits, clock, sets>>

\* doLogEvent: h.Emit(e) for the next handler of the slice
doLogEventEmit(t) ==
  /\ call[t].op = "log"
  /\ call[t].pc = "emit"
  /\ LET hs == hslices[call[t].old]
         h == hs[RangeIndex(call[t].i, Len(hs))]
     IN  /\ emits' = [emits EXCEPT ![t] =
                        Append(@, [L |-> call[t].cur, h |-> h, e |-> Contents(call[t].ev)])]
         /\ call' = [call EXCEPT ![t].i = @ + 1,
                       ![t].pc = IF call[t].i = Len(hs) THEN "propagate" ELSE "emit"]
  /\ UNCHANGED <<heapVars, regVars, hist, lin, events, arrays, visits, clock, sets>>

\* a walk that takes the logger itself for its parent
ParentIsSelf(L) == L
\* L.parent, as doLogEvent and EffectiveLevel read it
Parent(L) == loggers[L].parent

\* doLogEvent: if L.parent != nil && L.Propagate() { L.parent.doLogEvent(e) }
doLogEventPropagate(t) ==
  /\ call[t].op = "log"
  /\ call[t].pc = "propagate"
  /\ LET parent == Parent(call[t].cur)
         propagate == PropagateOf(loggers[call[t].cur].flags)
     IN  /\ visits' = [visits EXCEPT ![t] =
                         SetLast(@, [Last(@) EXCEPT !.prop =
                           IF parent = Nil THEN "unread"
                           ELSE IF propagate THEN "yes" ELSE "no"])]
         /\ call' = IF ShouldPropagate(parent, propagate)
                      THEN [call EXCEPT ![t].cur = parent, ![t].pc = "level"]
                      ELSE [call EXCEPT ![t].pc = "put"]
  /\ UNCHANGED <<heapVars, regVars, hist, lin, events, arrays, emits, clock, sets>>

\* the logger whose pool LogEvent gives the event to: its receiver L, the
\* logger of the log call, whatever logger doLogEvent ended on
PoolOwnerLastVisited(L, cur) == cur
PoolOwner(L, cur) == L

\* LogEvent: L.pools.putEvent(event), after which the log call returns
putEvent(t) ==
  /\ call[t].op = "log"
  /\ call[t].pc = "put"
  /\ LET L == PoolOwner(call[t].L, call[t].cur)
         ev == call[t].ev
         args == events[ev].Args
     IN  /\ arrays' = IF args.arr = Nil THEN arrays
                      ELSE [arrays EXCEPT ![args.arr] =
                              [i \in DOMAIN @ |-> IF i <= args.len THEN Nil ELSE @[i]]]
         /\ events' = [events EXCEPT ![ev].Args = NilSlice]
         /\ loggers' = [loggers EXCEPT
              ![L].freeArgs = AppendFree(@, [args EXCEPT !.len = 0], NilSlice),
              ![L].freeEvents = AppendFree(@, ev, Nil)]
         /\ call' = [call EXCEPT ![t] = Idle]
         /\ emits' = [emits EXCEPT ![t] = <<>>]
         /\ visits' = [visits EXCEPT ![t] = <<>>]
  /\ UNCHANGED <<hslices, regVars, hist, lin, clock, sets>>

InitialHandlers == <<<<1>>, <<2>>, <<2, 1>>>>

InitDispatch ==
  /\ loggers = <<NewLogger(NameA, Nil, 1), NewLogger(NameAB, 1, 2),
                 NewLogger(NameABC, 2, 3)>>
  /\ hslices = InitialHandlers
  /\ lin = [i \in 1..3 |-> [kind |-> "add", hs |-> InitialHandlers[i], L |-> i, tries |-> 0]]
  /\ registry = [n \in Names |-> IF n = NameA THEN 1 ELSE IF n = NameAB THEN 2 ELSE 3]
  /\ gstack = [t \in Threads |-> <<>>]
  /\ returned = {}
  /\ call = [t \in Threads |-> Idle]
  /\ hist = EmptyBag
  /\ events = <<>>
  /\ arrays = <<CallerArray>>
  /\ emits = [t \in Threads |-> <<>>]
  /\ visits = [t \in Threads |-> <<>>]
  /\ clock = 0
  /\ sets = 0

\* a panic that nothing recovers ends the program: no goroutine takes a step
NextPool ==
  \/ \E t \in Threads :
      \/ \E L \in Origins, kind \in LogKinds, level \in EventLevels :
           ~Panicked /\ clock < MaxCalls /\ LogCall(t, L, kind, level)
      \/ ~Panicked /\ createEvent1FromCaller(t)
      \/ ~Panicked /\ CreateEvent(t)
      \/ ~Panicked /\ doLogEventLevel(t)
      \/ ~Panicked /\ doLogEventHandlers(t)
      \/ ~Panicked /\ doLogEventEmit(t)
      \/ ~Panicked /\ doLogEventPropagate(t)
      \/ ~Panicked /\ putEvent(t)
  \/ ~Panicked /\ CallerRefill

\* concurrent log calls on one logger over its pool
SpecPool == InitDispatch /\ [][NextPool]_vars

\* one log call while the levels, the propagation and the handlers of the
\* loggers of its chain change
NextDispatch ==
  \E t \in Threads :
    \/ \E L \in Origins, kind \in LogKinds, level \in EventLevels :
         ~Panicked /\ clock < MaxDispatchCalls /\ LogCall(t, L, kind, level)
    \/ ~Panicked /\ createEvent1FromCaller(t)
    \/ ~Panicked /\ CreateEvent(t)
    \/ ~Panicked /\ doLogEventLevel(t)
    \/ ~Panicked /\ doLogEventHandlers(t)
    \/ ~Panicked /\ doLogEventEmit(t)
    \/ ~Panicked /\ doLogEventPropagate(t)
    \/ ~Panicked /\ putEvent(t)
    \/ \E L \in DOMAIN loggers, level \in SetLevels :
         ~Panicked /\ Changes < MaxChanges /\ SetLevelCall(t, L, level)
    \/ ~Panicked /\ SetLevelLoad(t)
    \/ ~Panicked /\ SetLevelCas(t)
    \/ \E L \in DOMAIN loggers, v \in BOOLEAN :
         ~Panicked /\ Changes < MaxChanges /\ SetPropagateCall(t, L, v)
    \/ ~Panicked /\ SetPropagateLoad(t)
    \/ ~Panicked /\ SetPropagateCas(t)
    \/ \E L \in DOMAIN loggers, hs \in HandlerArgs :
         ~Panicked /\ Changes < MaxChanges /\ AddHandlersCall(t, L, hs)
    \/ ~Panicked /\ AddHandlersRead(t)
    \/ ~Panicked /\ AddHandlersResize(t)
    \/ ~Panicked /\ AddHandlersCopy(t)
    \/ ~Panicked /\ AddHandlersCas(t)
    \/ \E L \in DOMAIN loggers, hs \in HandlerArgs :
         ~Panicked /\ Changes < MaxChanges /\ RemoveHandlersCall(t, L, hs)
    \/ ~Panicked /\ RemoveHandlersFilter(t)
    \/ ~Panicked /\ RemoveHandlersCas(t)
    \/ ~Panicked /\ RemoveHandlersRead(t)

SpecDispatch == InitDispatch /\ [][NextDispatch]_vars

\* the Events on the free list of logger L
EventsOn(fl) == {fl.arr[i] : i \in 1..fl.len}
FreeEvents(L) == EventsOn(loggers[L].freeEvents)

\* C4: from the step at which a log call obtains an Event from the pool until
\* that call returns, no other log call in flight holds the same Event and
\* the Event is on the free list of no logger.
EventExclusivelyHeld ==
  \A t \in Threads :
    Holding(t) =>
      /\ \A u \in Threads \ {t} : Holding(u) => call[u].ev # call[t].ev
      /\ \A L \in DOMAIN loggers : call[t].ev \notin FreeEvents(L)

\* two log calls of one logger are in flight after an earlier one has put its
\* Event back, and the free list of the logger is not empty
HeldBesideFreeEvents ==
  \E t \in Threads, u \in Threads :
    /\ t # u
    /\ Holding(t)
    /\ Holding(u)
    /\ call[t].L = call[u].L
    /\ clock = MaxCalls
    /\ FreeEvents(call[t].L) # {}

(***************************************************************************)
(* The dispatch of one event along the chain of its logger.                *)
(***************************************************************************)
\* doLogEvent is over on every logger of the chain and LogEvent is about to
\* put the event back and return
Dispatched(t) == call[t].op = "log" /\ call[t].pc = "put"

\* the handlers of logger L that were given the event of t, in Emit order
EmittedBy(t, L) ==
  LET s == SelectSeq(emits[t], LAMBDA m : m.L = L)
  IN  [k \in 1..Len(s) |-> s[k].h]

Count(seq, h) == Cardinality({k \in 1..Len(seq) : seq[k] = h})

\* the parent of L, its parent, and so on
RECURSIVE Ancestors(_)
Ancestors(L) ==
  IF loggers[L].parent = Nil THEN {}
  ELSE {loggers[L].parent} \cup Ancestors(loggers[L].parent)

\* C5: a handler of a logger is given an event only if the level of the event
\* is not below the level the logger has when its dispatch step reads it.
BelowLevelNeverEmitted ==
  \A t \in Threads :
    \A k \in 1..Len(emits[t]) :
      \E j \in 1..Len(visits[t]) :
        /\ visits[t][j].L = emits[t][k].L
        /\ ~(call[t].lvl < visits[t][j].level)

\* a dispatch is over in which a logger that has handlers held the event back
\* for its level while another logger of the chain emitted it
HeldBackAtOneLogger ==
  \E t \in Threads :
    /\ Dispatched(t)
    /\ emits[t] # <<>>
    /\ \E j \in 1..Len(visits[t]) :
         /\ call[t].lvl < visits[t][j].level
         /\ hslices[handlersPtr(visits[t][j].L)] # <<>>

\* C6: when the dispatch of an event is over and the log call is about to
\* return, every logger of the chain whose level the event reached has passed
\* read its handler slice and passed the event to Emit exactly once for each
\* entry of that slice.
EmittedOncePerSnapshotEntry ==
  \A t \in Threads :
    Dispatched(t) =>
      \A j \in 1..Len(visits[t]) :
        call[t].lvl >= visits[t][j].level =>
          /\ visits[t][j].read
          /\ \A h \in Handlers :
               Count(EmittedBy(t, visits[t][j].L), h) = Count(visits[t][j].snap, h)

\* a dispatch is over in which a logger emitted an event at exactly its level
\* to the two handlers of a snapshot that is no longer its handler set
EmittedStaleSnapshotAtLevel ==
  \E t \in Threads :
    /\ Dispatched(t)
    /\ \E j \in 1..Len(visits[t]) :
         /\ call[t].lvl = visits[t][j].level
         /\ Len(visits[t][j].snap) >= 2
         /\ Len(EmittedBy(t, visits[t][j].L)) >= 2
         /\ visits[t][j].snap # hslices[handlersPtr(visits[t][j].L)]

\* C7: the handlers a logger has given an event to are, in Emit order, the
\* leading entries of the snapshot it read, and that snapshot is the sequence
\* of the handlers added to the logger, in the order of their addition,
\* without the removed ones.
EmitsFollowSnapshotOrder ==
  \A t \in Threads :
    \A j \in 1..Len(visits[t]) :
      LET E == EmittedBy(t, visits[t][j].L)
      IN  /\ Len(E) <= Len(visits[t][j].snap)
          /\ E = SubSeq(visits[t][j].snap, 1, Len(E))
          /\ visits[t][j].read => visits[t][j].snap \in CompleteSequences(visits[t][j].L)

\* a dispatch is over in which a logger emitted to two different handlers of
\* a snapshot that an AddHandlers or RemoveHandlers call had produced
EmittedChangedSnapshot ==
  \E t \in Threads :
    /\ Dispatched(t)
    /\ \E j \in 1..Len(visits[t]) :
         LET E == EmittedBy(t, visits[t][j].L)
         IN  /\ Len(E) >= 2
             /\ E[1] # E[2]
             /\ E = visits[t][j].snap
             /\ E # InitialHandlers[visits[t][j].L]

\* C8: of the Emit calls of one log call, an earlier one is never on a
\* farther logger of the chain than a later one, and all of them are given an
\* event with the same name, time, level, message and arguments.
ChainOrderSameEvent ==
  \A t \in Threads :
    \A i \in 1..Len(emits[t]), k \in 1..Len(emits[t]) :
      i < k =>
        /\ emits[t][k].L \in {emits[t][i].L} \cup Ancestors(emits[t][i].L)
        /\ emits[t][k].e = emits[t][i].e

\* C9: no handler of an ancestor of a logger is given an event of a log call
\* whose dispatch step read the propagation of that logger as disabled, and
\* that logger read its handler slice and gave the event to every handler
\* of it if the event reached its level.
NoPropagationPastDisabled ==
  \A t \in Threads :
    \A j \in 1..Len(visits[t]) :
      visits[t][j].prop = "no" =>
        /\ \A k \in 1..Len(emits[t]) : emits[t][k].L \notin Ancestors(visits[t][j].L)
        /\ j = Len(visits[t])
        /\ call[t].lvl >= visits[t][j].level =>
             /\ visits[t][j].read
             /\ EmittedBy(t, visits[t][j].L) = visits[t][j].snap

\* a dispatch is over that emitted on the logger of the call and stopped
\* there, propagation being disabled, below a parent that has handlers and a
\* level the event reaches
StoppedBelowListeningParent ==
  \E t \in Threads :
    /\ Dispatched(t)
    /\ visits[t][1].prop = "no"
    /\ EmittedBy(t, call[t].L) # <<>>
    /\ hslices[handlersPtr(loggers[call[t].L].parent)] # <<>>
    /\ call[t].lvl >= LevelOf(loggers[loggers[call[t].L].parent].flags)

(***************************************************************************)
(* EffectiveLevel: the walk up the parents of a logger while Propagate().   *)
(***************************************************************************)
MaxSets == 3
MaxLevelCalls == 1

\* if parentLevel < minLevel { minLevel = parentLevel }
MaxLevel(minLevel, parentLevel) == IF parentLevel > minLevel THEN parentLevel ELSE minLevel
MinLevel(minLevel, parentLevel) == IF parentLevel < minLevel THEN parentLevel ELSE minLevel

\* some other goroutine is inside SetLevel or SetPropagate
Setting(t) == \E u \in Threads \ {t} : call[u].op \in {"SetLevel", "SetPropagate"}

\* minLevel := L.Level(); tries and kind keep what the configuration calls
\* were at when the call began
EffectiveLevelCall(t, L) ==
  /\ call[t].op = "idle"
  /\ clock' = clock + 1
  /\ call' = [call EXCEPT ![t] =
       [Idle EXCEPT !.op = "EffectiveLevel", !.pc = "propagate", !.L = L, !.cur = L,
                    !.lvl = LevelOf(loggers[L].flags), !.tries = sets,
                    !.kind = IF Setting(t) THEN "busy" ELSE "quiet"]]
  /\ UNCHANGED <<heapVars, regVars, hist, lin, events, arrays, emits, visits, sets>>

\* for L.Propagate() { L = L.parent; if L == nil { break } ...
EffectiveLevelPropagate(t) ==
  /\ call[t].op = "EffectiveLevel"
  /\ call[t].pc = "propagate"
  /\ call' = IF PropagateOf(loggers[call[t].cur].flags) /\ Parent(call[t].cur) # Nil
               THEN [call EXCEPT ![t].cur = Parent(call[t].cur), ![t].pc = "parent"]
               ELSE [call EXCEPT ![t].pc = "ret"]
  /\ UNCHANGED <<heapVars, regVars, hist, lin, dispVars>>

\* parentLevel := L.Level() and the update of minLevel
EffectiveLevelParent(t) ==
  /\ call[t].op = "EffectiveLevel"
  /\ call[t].pc = "parent"
  /\ call' = [call EXCEPT ![t].lvl = MinLevel(@, LevelOf(loggers[call[t].cur].flags)),
                          ![t].pc = "propagate"]
  /\ UNCHANGED <<heapVars, regVars, hist, lin, dispVars>>

\* return minLevel
EffectiveLevelReturn(t) ==
  /\ call[t].op = "EffectiveLevel"
  /\ call[t].pc = "ret"
  /\ call' = [call EXCEPT ![t] = Idle]
  /\ UNCHANGED <<heapVars, regVars, hist, lin, dispVars>>

NextLevel ==
  \E t \in Threads :
    \/ \E L \in DOMAIN loggers : clock < MaxLevelCalls /\ EffectiveLevelCall(t, L)
    \/ EffectiveLevelPropagate(t)
    \/ EffectiveLevelParent(t)
    \/ EffectiveLevelReturn(t)
    \/ \E L \in DOMAIN loggers, level \in SetLevels : sets < MaxSets /\ SetLevelCall(t, L, level)
    \/ SetLevelLoad(t)
    \/ SetLevelCas(t)
    \/ \E L \in DOMAIN loggers, v \in BOOLEAN : sets < MaxSets /\ SetPropagateCall(t, L, v)
    \/ SetPropagateLoad(t)
    \/ SetPropagateCas(t)

\* EffectiveLevel calls on the chain a, a/b, a/b/c among SetLevel and
\* SetPropagate calls
SpecLevel == InitDispatch /\ [][NextLevel]_vars

\* L and the ancestors it reaches through loggers that propagate
RECURSIVE PropagateConnected(_)
PropagateConnected(L) ==
  IF loggers[L].parent = Nil \/ ~PropagateOf(loggers[L].flags) THEN {L}
  ELSE {L} \cup PropagateConnected(loggers[L].parent)

Minimum(S) == CHOOSE m \in S : \A x \in S : m <= x

\* no SetLevel or SetPropagate call ran while the EffectiveLevel call of t did
Undisturbed(t) == call[t].kind = "quiet" /\ call[t].tries = sets

\* C10: an EffectiveLevel call during which no level and no propagation flag
\* changed returns the least Level of the logger and of the ancestors it
\* reaches through an unbroken chain of loggers that propagate.
EffectiveLevelIsChainMinimum ==
  \A t \in Threads :
    (call[t].op = "EffectiveLevel" /\ call[t].pc = "ret" /\ Undisturbed(t)) =>
      call[t].lvl = Minimum({LevelOf(loggers[A].flags) : A \in PropagateConnected(call[t].L)})

\* EffectiveLevel of a/b/c returns a level below its own, that of a/b, while
\* the still lower level of a, above a/b that does not propagate, stays out
LowerAncestorCutOff ==
  \E t \in Threads :
    /\ call[t].op = "EffectiveLevel"
    /\ call[t].pc = "ret"
    /\ Undisturbed(t)
    /\ call[t].L = 3
    /\ call[t].lvl < LevelOf(loggers[3].flags)
    /\ LevelOf(loggers[1].flags) < call[t].lvl
    /\ ~PropagateOf(loggers[2].flags)

(***************************************************************************)
(* The pool: who returns what, and what the buffers hold.                  *)
(***************************************************************************)
\* doLogEvent has returned on the last logger the event of t reaches
ChainFinished(t) ==
  /\ visits[t] # <<>>
  /\ visits[t][1].L = call[t].L
  /\ \A j \in 1..(Len(visits[t]) - 1) :
       visits[t][j].prop = "yes" /\ visits[t][j + 1].L = loggers[visits[t][j].L].parent
  /\ \/ Last(visits[t]).prop = "no"
     \/ loggers[Last(visits[t]).L].parent = Nil

\* C11: a free list of a logger changes only in a step of a log call made on
\* that logger; such a step either borrows, or it is the one step of the call
\* that puts the event of the call back, taken when doLogEvent is over on the
\* whole chain and followed by the return of the call; and no log call
\* returns without having put its event on the free list of its logger.
EventReturnedByOriginOnce ==
  [][/\ \A L \in DOMAIN loggers :
          (loggers'[L].freeEvents # loggers[L].freeEvents
             \/ loggers'[L].freeArgs # loggers[L].freeArgs) =>
            \E t \in Threads :
              /\ call[t].op = "log"
              /\ call[t].L = L
              /\ \/ call[t].pc \in {"getargs", "create"}
                 \/ /\ call[t].pc = "put"
                    /\ ChainFinished(t)
                    /\ call'[t].op = "idle"
                    /\ loggers'[L].freeEvents.len = loggers[L].freeEvents.len + 1
                    /\ EventsOn(loggers'[L].freeEvents) = FreeEvents(L) \cup {call[t].ev}
     /\ \A t \in Threads :
          (call[t].op = "log" /\ call'[t].op = "idle") =>
            /\ call[t].ev \in EventsOn(loggers'[call[t].L].freeEvents)
            /\ call[t].ev \notin FreeEvents(call[t].L)
    ]_vars

\* an event is back on the free list of a/b/c while another log call made on
\* a/b/c is in doLogEvent on an ancestor, whose free lists were never used
ReturnedWhileRelayed ==
  \E t \in Threads :
    /\ call[t].op = "log"
    /\ call[t].cur # call[t].L
    /\ call[t].pc = "emit"
    /\ FreeEvents(call[t].L) # {}
    /\ loggers[call[t].cur].freeEvents = NoFreeList
    /\ loggers[call[t].cur].freeArgs = NoFreeList

\* every slot of the array of the slice s is nil
AllNil(heap, s) == s.arr = Nil \/ \A i \in 1..Len(heap[s.arr]) : heap[s.arr][i] = Nil

\* C12: when putEvent returns, every slot of the array of the event's Args is
\* nil and the Args field of the event is nil; and a buffer that getArgs takes
\* from the free list holds nothing but nil.
BuffersHoldNoLoggedValue ==
  [][\A t \in Threads :
       /\ (call[t].op = "log" /\ call[t].pc = "put" /\ call'[t].op = "idle") =>
            /\ AllNil(arrays', events[call[t].ev].Args)
            /\ events'[call[t].ev].Args = NilSlice
       /\ (call[t].op = "log" /\ call[t].pc = "getargs" /\ call'[t].pc = "create"
             /\ loggers[call[t].L].freeArgs.len > 0) =>
            AllNil(arrays,
                   loggers[call[t].L].freeArgs.arr[loggers[call[t].L].freeArgs.len])
    ]_vars

\* C13: no getArgs and no getEvent call panics: each returns a buffer or an
\* event, whatever the log calls in flight hold.
BorrowsNeverPanic == \A t \in Threads : call[t].pc # "panic"

\* the number of argument counts with a free list of their own: 1 to 4
NumArgsPools == 4

\* C14: putEvent puts the argument buffer of the event on a free list only
\* when the buffer holds 1 to 4 arguments; a buffer of more than 4 arguments
\* is on no free list after putEvent.
OnlyBucketedBuffersPooled ==
  [][\A t \in Threads :
       (call[t].op = "log" /\ call[t].pc = "put" /\ call'[t].op = "idle") =>
         LET L == call[t].L
             args == events[call[t].ev].Args
         IN  /\ loggers'[L].freeArgs # loggers[L].freeArgs =>
                   args.len \in 1..NumArgsPools
             /\ args.len > NumArgsPools =>
                   \A i \in 1..loggers'[L].freeArgs.len :
                     loggers'[L].freeArgs.arr[i].arr # args.arr]_vars

\* what a handler reads from the event of the log call of t when getEvent and
\* getArgs allocate and putEvent discards: the fields CreateEvent assigned
\* and the arguments the caller passed
FreshContents(t) ==
  [Name |-> loggers[call[t].L].name, Time |-> call[t].time, Level |-> call[t].lvl,
   Msg |-> "msg",
   Args |-> IF call[t].kind = "log" THEN CallerArray
            ELSE GivenArgs(call[t].kind, call[t].time)]

\* C15: every Emit of a log call is given the contents it is given when
\* every getEvent and getArgs allocates and putEvent discards, and no log
\* call stops in the pool.
PoolingTransparent ==
  \A t \in Threads :
    /\ call[t].pc # "panic"
    /\ \A k \in 1..Len(emits[t]) : emits[t][k].e = FreshContents(t)

\* C16: no two distinct Logger objects have the same name, whatever
\* GetLogger calls raced to create them.
OneLoggerObjectPerName ==
  \A i \in DOMAIN loggers, j \in DOMAIN loggers :
    loggers[i].name = loggers[j].name => i = j

\* p is n up to, and without, the last '/' of n
IsPrefixToLastSeparator(p, n) ==
  /\ Len(p) < Len(n)
  /\ SubSeq(n, 1, Len(p)) = p
  /\ n[Len(p) + 1] = "/"
  /\ \A k \in (Len(p) + 2)..Len(n) : n[k] # "/"

\* C17: the parent of every logger whose name contains '/' is the logger
\* registered under the name up to the last '/', and a logger whose name
\* contains no '/' has no parent.
ParentIsRegisteredPrefix ==
  \A i \in DOMAIN loggers :
    LET n == loggers[i].name
        p == loggers[i].parent
    IN  IF \E k \in 1..Len(n) : n[k] = "/"
          THEN /\ p # Nil
               /\ IsPrefixToLastSeparator(loggers[p].name, n)
               /\ registry[loggers[p].name] = p
          ELSE p = Nil

\* a logger of two separators has its parent, and GetLogger calls raced to
\* create the parent of that parent
ChildOfRacedParent ==
  \E i \in DOMAIN loggers, k \in DOMAIN loggers :
    /\ loggers[i].name = NameABC
    /\ loggers[i].parent # Nil
    /\ loggers[loggers[i].parent].parent # Nil
    /\ k # loggers[loggers[i].parent].parent
    /\ loggers[k].name = NameA

(***************************************************************************)
(* The walks up the parent chain: log calls and EffectiveLevel calls that  *)
(* every goroutine goes on with until they end, while propagation flags    *)
(* change.                                                                 *)
(***************************************************************************)
MaxWalkCalls == 2

\* a step of the call goroutine t is in: the scheduler runs every goroutine
\* that can run, and Emit returns
WalkStep(t) ==
  \/ ~Panicked /\ createEvent1FromCaller(t)
  \/ ~Panicked /\ CreateEvent(t)
  \/ ~Panicked /\ doLogEventLevel(t)
  \/ ~Panicked /\ doLogEventHandlers(t)
  \/ ~Panicked /\ doLogEventEmit(t)
  \/ ~Panicked /\ doLogEventPropagate(t)
  \/ ~Panicked /\ putEvent(t)
  \/ ~Panicked /\ EffectiveLevelPropagate(t)
  \/ ~Panicked /\ EffectiveLevelParent(t)
  \/ ~Panicked /\ EffectiveLevelReturn(t)
  \/ ~Panicked /\ SetPropagateLoad(t)
  \/ ~Panicked /\ SetPropagateCas(t)

NextWalk ==
  \E t \in Threads :
    \/ \E L \in Origins, kind \in LogKinds, level \in EventLevels :
         ~Panicked /\ clock < MaxWalkCalls /\ LogCall(t, L, kind, level)
    \/ \E L \in Origins :
         ~Panicked /\ clock < MaxWalkCalls /\ EffectiveLevelCall(t, L)
    \/ \E L \in DOMAIN loggers, v \in BOOLEAN :
         ~Panicked /\ Changes < MaxChanges /\ SetPropagateCall(t, L, v)
    \/ ~Panicked /\ createEvent1FromCaller(t)
    \/ ~Panicked /\ CreateEvent(t)
    \/ ~Panicked /\ doLogEventLevel(t)
    \/ ~Panicked /\ doLogEventHandlers(t)
    \/ ~Panicked /\ doLogEventEmit(t)
    \/ ~Panicked /\ doLogEventPropagate(t)
    \/ ~Panicked /\ putEvent(t)
    \/ ~Panicked /\ EffectiveLevelPropagate(t)
    \/ ~Panicked /\ EffectiveLevelParent(t)
    \/ ~Panicked /\ EffectiveLevelReturn(t)
    \/ ~Panicked /\ SetPropagateLoad(t)
    \/ ~Panicked /\ SetPropagateCas(t)

SpecWalk ==
  InitDispatch /\ [][NextWalk]_vars /\ \A t \in Threads : WF_vars(WalkStep(t))

Walking(t) == call[t].op \in {"log", "EffectiveLevel"}

MaxOptionCalls == 2

\* LoggerLevel(ErrorLevel) and LoggerHandler(h) of the model
OptionLevel == ErrorLevel
OptionHandler == 1

\* the options ...LoggerOption of the calls of the model: "level" is
\* LoggerLevel, "handler" LoggerHandler (its AddHandlers taken at the swap),
\* "temporary" LoggerTemporary, "fail" an option that changes nothing and
\* returns an error
OptionLists ==
  {<<"level">>, <<"handler", "fail", "level">>, <<"fail", "temporary">>}

\* a caller invokes GetLogger(name, options...)
GetLoggerCallOptions(t, name, options) ==
  /\ gstack[t] = <<>>
  /\ call[t].op = "idle"
  /\ sets' = sets + 1
  /\ gstack' = [gstack EXCEPT ![t] = <<OptFrame(name, options)>>]
  /\ UNCHANGED <<heapVars, registry, returned, hsVars, events, arrays, emits, visits,
                 clock>>

\* one turn of the loop: err := opt(L), errs, and the test for LoggerTemporary
GetLoggerOption(t) ==
  /\ gstack[t] # <<>>
  /\ Top(t).pc = "option"
  /\ LET f == Top(t)
         o == f.opts[f.k]
     IN  /\ IF o = "level"
               THEN /\ loggers' = [loggers EXCEPT ![f.L].flags =
                                     SetLevelFlags(@, OptionLevel)]
                    /\ UNCHANGED hslices
               ELSE IF o = "handler"
               THEN /\ hslices' = Append(hslices,
                                         hslices[handlersPtr(f.L)] \o <<OptionHandler>>)
                    /\ loggers' = [loggers EXCEPT ![f.L].handlersUnsafe =
                                     Len(hslices) + 1]
               ELSE UNCHANGED <<loggers, hslices>>
         /\ gstack' = SetTop(t, [f EXCEPT
                                   !.k = @ + 1,
                                   !.errs = @ \/ o = "fail",
                                   !.temp = @ \/ o = "temporary",
                                   !.pc = AfterOption(f.k, Len(f.opts), o = "fail")])
  /\ UNCHANGED <<registry, returned, hsVars, dispVars>>

\* if errs != nil { L.LogErr(errs) }: L.log0(ErrorLevel, err.Error())
GetLoggerLogErr(t) ==
  /\ gstack[t] # <<>>
  /\ Top(t).pc = "logerr"
  /\ clock' = clock + 1
  /\ call' = [call EXCEPT ![t] =
       [Idle EXCEPT !.op = "log", !.L = Top(t).L, !.kind = "log0", !.lvl = ErrorLevel,
                    !.time = clock + 1, !.pc = "create", !.args = NilSlice]]
  /\ gstack' = SetTop(t, [Top(t) EXCEPT !.pc = "ret", !.logs = @ + 1])
  /\ UNCHANGED <<heapVars, registry, returned, hist, lin, events, arrays, emits, visits,
                 sets>>

NextOptions ==
  \E t \in Threads :
    \/ \E name \in Names, options \in OptionLists :
         sets < MaxOptionCalls /\ GetLoggerCallOptions(t, name, options)
    \/ GetLoggerLoad(t)
    \/ createLogger(t)
    \/ GetLoggerOption(t)
    \/ GetLoggerStore(t)
    \/ GetLoggerLogErr(t)
    \/ GetLoggerReturn(t)
    \/ CreateEvent(t)
    \/ doLogEventLevel(t)
    \/ doLogEventHandlers(t)
    \/ doLogEventEmit(t)
    \/ doLogEventPropagate(t)
    \/ putEvent(t)

\* GetLogger calls with and without options that race to create loggers
SpecOptions == InitRegistry /\ [][NextOptions]_vars

Has(options, o) == \E k \in DOMAIN options : options[k] = o

\* C19: at the step that puts a new logger into the registry, the GetLogger
\* call that built it has run all its options, and the logger has its name,
\* the level and the handlers its options gave it (level 0 and an empty,
\* non-nil handler slice without them), an unused pool, and as parent the
\* registered logger of its parent name.
PublishedFullyInitialized ==
  [][\A n \in Names :
       (registry[n] = Nil /\ registry'[n] # Nil) =>
         LET L == registry'[n]
         IN  \E t \in Threads :
               /\ gstack[t] # <<>>
               /\ Top(t).pc = "store"
               /\ Top(t).name = n
               /\ Top(t).made = L
               /\ Top(t).k = Len(Top(t).opts) + 1
               /\ loggers'[L].name = n
               /\ LevelOf(loggers'[L].flags) =
                    (IF Has(Top(t).opts, "level") THEN OptionLevel ELSE 0)
               /\ PropagateOf(loggers'[L].flags)
               /\ loggers'[L].handlersUnsafe \in DOMAIN hslices'
               /\ hslices'[loggers'[L].handlersUnsafe] =
                    (IF Has(Top(t).opts, "handler") THEN <<OptionHandler>> ELSE <<>>)
               /\ loggers'[L].freeArgs = NoFreeList
               /\ loggers'[L].freeEvents = NoFreeList
               /\ IF \E k \in 1..Len(n) : n[k] = "/"
                    THEN /\ loggers'[L].parent # Nil
                         /\ IsPrefixToLastSeparator(loggers'[loggers'[L].parent].name, n)
                         /\ registry'[loggers'[loggers'[L].parent].name] = loggers'[L].parent
                    ELSE loggers'[L].parent = Nil]_vars

\* a logger that a call with a handler, a failing and a level option built
\* is in the registry, while the other goroutine is about to load that name
PublishedWithOptions ==
  \E t \in Threads, u \in Threads :
    /\ gstack[t] # <<>>
    /\ Top(t).opts = <<"handler", "fail", "level">>
    /\ Top(t).made # Nil
    /\ registry[Top(t).name] = Top(t).made
    /\ gstack[u] # <<>>
    /\ u # t
    /\ Top(u).name = Top(t).name
    /\ Top(u).pc = "load"

\* the Logger the option loop of the activation f ran on: the one it built,
\* or the one its Load found
Configured(f) == IF f.made # Nil THEN f.made ELSE f.L

\* C20: a GetLogger call with an option that returned an error makes one
\* LogErr call, an ErrorLevel log0 on the logger its options were applied
\* to, and returns a logger, registered under the name unless the call has
\* LoggerTemporary, after every option ran and left its effect.
ErrorsLoggedOnceOnConfigured ==
  [][\A t \in Threads :
       (gstack[t] # <<>> /\ Len(gstack[t]) = 1 /\ Top(t).errs) =>
         /\ (Top(t).pc = "logerr" /\ gstack'[t] # gstack[t]) =>
              /\ call'[t].op = "log"
              /\ call'[t].lvl = ErrorLevel
              /\ call'[t].L = Configured(Top(t))
         /\ (Top(t).pc = "ret" /\ gstack'[t] = <<>>) =>
              /\ Top(t).logs = 1
              /\ Top(t).k = Len(Top(t).opts) + 1
              /\ Top(t).L # Nil
              /\ ~Top(t).temp => registry[Top(t).name] = Top(t).L
              /\ Has(Top(t).opts, "level") =>
                   LevelOf(loggers[Configured(Top(t))].flags) = OptionLevel
              /\ Has(Top(t).opts, "handler") =>
                   \E i \in DOMAIN hslices[handlersPtr(Configured(Top(t)))] :
                     hslices[handlersPtr(Configured(Top(t)))][i] = OptionHandler]_vars

(***************************************************************************)
(* What one AddHandlers or RemoveHandlers call does to the sequence.       *)
(***************************************************************************)
\* the positions of old whose handler is none of the victims
KeptPositions(old, victims) ==
  {i \in 1..Len(old) : \A j \in 1..Len(victims) : victims[j] # old[i]}

\* the handlers of old at those positions, in the order of the positions
KeptInOrder(old, victims) ==
  LET K == KeptPositions(old, victims)
  IN  [k \in 1..Cardinality(K) |->
         old[CHOOSE i \in K : Cardinality({j \in K : j < i}) = k - 1]]

\* C21: the step at which a RemoveHandlers call returns leaves as handler
\* sequence of its logger the handlers of the sequence before the step that
\* are none of the victims, every occurrence of a victim left out and the
\* others in the order they had; without a victim in it the sequence is the
\* same.
RemoveKeepsOthersInOrder ==
  [][\A t \in Threads :
       (call[t].op = "RemoveHandlers" /\ call'[t].op = "idle") =>
         LET L == call[t].L
             before == hslices[loggers[L].handlersUnsafe]
             after == hslices'[loggers'[L].handlersUnsafe]
         IN  /\ after = KeptInOrder(before, call[t].hs)
             /\ (\A i \in 1..Len(before) : \A j \in 1..Len(call[t].hs) :
                    call[t].hs[j] # before[i]) => after = before]_vars

\* AddHandlers(1, 2) on the sequence 2, 1 and then, with no other call
\* running, RemoveHandlers(1), which took out both occurrences of 1
RemovedEveryOccurrence ==
  /\ AllIdle
  /\ Len(lin) = 3
  /\ lin[1].hs = <<2, 1>>
  /\ lin[2] = [kind |-> "add", hs |-> <<1, 2>>, L |-> 1, tries |-> 0]
  /\ lin[3] = [kind |-> "remove", hs |-> <<1>>, L |-> 1, tries |-> 0]
  /\ hslices[handlersPtr(1)] = <<2, 2>>

\* C22: the step at which an AddHandlers call returns leaves as handler
\* sequence of its logger the sequence before the step followed by the
\* handlers of the call in argument order: the handlers that were there
\* keep their positions, and the length grows by the number of arguments,
\* whether or not a handler was there already.
AddAppendsInArgumentOrder ==
  [][\A t \in Threads :
       (call[t].op = "AddHandlers" /\ call'[t].op = "idle") =>
         LET L == call[t].L
             before == hslices[loggers[L].handlersUnsafe]
             after == hslices'[loggers'[L].handlersUnsafe]
         IN  /\ Len(after) = Len(before) + Len(call[t].hs)
             /\ \A i \in 1..Len(before) : after[i] = before[i]
             /\ \A j \in 1..Len(call[t].hs) : after[Len(before) + j] = call[t].hs[j]]_vars

\* AddHandlers(1, 2) on the sequence 2, 1, with no retry, left 2, 1, 1, 2
AddedBesideSameHandlers ==
  /\ AllIdle
  /\ Len(lin) = 2
  /\ lin[1].hs = <<2, 1>>
  /\ lin[2] = [kind |-> "add", hs |-> <<1, 2>>, L |-> 1, tries |-> 0]
  /\ hslices[handlersPtr(1)] = <<2, 1, 1, 2>>

\* a RemoveHandlers call with h among its arguments has returned on logger L,
\* and no AddHandlers call has put h back since
Removed(L, h) ==
  \E j \in 1..Len(lin) :
    /\ lin[j].kind = "remove"
    /\ lin[j].L = L
    /\ \E i \in 1..Len(lin[j].hs) : lin[j].hs[i] = h
    /\ \A k \in (j + 1)..Len(lin) :
         ~(lin[k].kind = "add" /\ lin[k].L = L
             /\ \E i \in 1..Len(lin[k].hs) : lin[k].hs[i] = h)

\* C23: once RemoveHandlers(h) has returned on a logger, no Emit of h is
\* made for that logger, whether the log call began before or after the
\* removal.
NoEmitAfterRemoval ==
  [][\A t \in Threads :
       Len(emits'[t]) > Len(emits[t]) =>
         ~Removed(emits'[t][Len(emits'[t])].L, emits'[t][Len(emits'[t])].h)]_vars

\* C24: the step at which SetLevel(l) returns on logger L makes l the level
\* of L and leaves the level of every other logger as it was; for no logger,
\* L included, does it change the handlers or whether events that reach the
\* logger go on to its parent, so the new level decides only what the
\* handlers of L are given.
SetLevelChangesOnlyOwnLevel ==
  [][\A t \in Threads :
       (call[t].op = "SetLevel" /\ call'[t].op = "idle") =>
         /\ LevelOf(loggers'[call[t].L].flags) = call[t].lvl
         /\ \A M \in DOMAIN loggers :
              /\ M # call[t].L =>
                   LevelOf(loggers'[M].flags) = LevelOf(loggers[M].flags)
              /\ PropagateOf(loggers'[M].flags) = PropagateOf(loggers[M].flags)
              /\ loggers'[M].handlersUnsafe = loggers[M].handlersUnsafe
              /\ loggers'[M].parent = loggers[M].parent]_vars

\* C25: a GetLogger call with LoggerTemporary puts nothing into the
\* registry, and the logger it returns is under no name of the registry and
\* has been returned by no GetLogger call before.
TemporaryNotCached ==
  [][\A t \in Threads :
       (gstack[t] # <<>> /\ Len(gstack[t]) = 1 /\ Has(Top(t).opts, "temporary")) =>
         /\ registry'[Top(t).name] # registry[Top(t).name] =>
              registry'[Top(t).name] # Top(t).made
         /\ (Top(t).pc = "ret" /\ gstack'[t] = <<>>) =>
              /\ \A n \in Names : registry[n] # Top(t).L
              /\ \A r \in returned : r.L # Top(t).L]_vars

(***************************************************************************)
(* Log calls between configuration calls: a SetLevel or SetPropagate call  *)
(* begins only while no log call runs, and a log call only while none of   *)
(* them runs, so the levels and flags stand still during each log call.    *)
(***************************************************************************)
MaxQuietCalls == 1
MaxQuietSets == 3

NoLogCall == \A u \in Threads : call[u].op # "log"
NoSetCall == \A u \in Threads : call[u].op \notin {"SetLevel", "SetPropagate"}

NextQuiet ==
  \E t \in Threads :
    \/ \E L \in Origins, kind \in LogKinds, level \in EventLevels :
         ~Panicked /\ clock < MaxQuietCalls /\ NoSetCall /\ LogCall(t, L, kind, level)
    \/ ~Panicked /\ createEvent1FromCaller(t)
    \/ ~Panicked /\ CreateEvent(t)
    \/ ~Panicked /\ doLogEventLevel(t)
    \/ ~Panicked /\ doLogEventHandlers(t)
    \/ ~Panicked /\ doLogEventEmit(t)
    \/ ~Panicked /\ doLogEventPropagate(t)
    \/ ~Panicked /\ putEvent(t)
    \/ \E L \in DOMAIN loggers, level \in SetLevels :
         ~Panicked /\ sets < MaxQuietSets /\ NoLogCall /\ SetLevelCall(t, L, level)
    \/ ~Panicked /\ SetLevelLoad(t)
    \/ ~Panicked /\ SetLevelCas(t)
    \/ \E L \in DOMAIN loggers, v \in BOOLEAN :
         ~Panicked /\ sets < MaxQuietSets /\ NoLogCall /\ SetPropagateCall(t, L, v)
    \/ ~Panicked /\ SetPropagateLoad(t)
    \/ ~Panicked /\ SetPropagateCas(t)

SpecQuiet == InitDispatch /\ [][NextQuiet]_vars

\* an EffectiveLevel that stops at the logger itself
OwnLevelFrom(L, minLevel) == minLevel

\* the loop of EffectiveLevel from logger L on with minLevel so far, run
\* without a step of another goroutine in between
RECURSIVE EffectiveLevelFrom(_, _)
EffectiveLevelFrom(L, minLevel) ==
  IF ~PropagateOf(loggers[L].flags) \/ Parent(L) = Nil THEN minLevel
  ELSE EffectiveLevelFrom(Parent(L),
                          MinLevel(minLevel, LevelOf(loggers[Parent(L)].flags)))

\* L.EffectiveLevel()
EffectiveLevelOf(L) == EffectiveLevelFrom(L, LevelOf(loggers[L].flags))

\* C26: in a log call during which no level and no propagation flag
\* changes, with an event whose level is below EffectiveLevel() of the
\* logger of the call, no Emit is made, on that logger or on an ancestor.
BelowEffectiveLevelNoEmit ==
  \A t \in Threads :
    (call[t].op = "log" /\ call[t].lvl < EffectiveLevelOf(call[t].L)) =>
      emits[t] = <<>>

\* a log call below the effective level of its logger has walked the whole
\* chain, whose loggers all have handlers, and is about to return; the
\* level of the logger itself is not what kept the event back there
WalkedChainBelowEffectiveLevel ==
  \E t \in Threads :
    /\ call[t].op = "log"
    /\ call[t].pc = "put"
    /\ call[t].lvl < EffectiveLevelOf(call[t].L)
    /\ Len(visits[t]) = 3
    /\ \A L \in DOMAIN loggers : hslices[handlersPtr(L)] # <<>>
    /\ LevelOf(loggers[1].flags) # LevelOf(loggers[3].flags)

(***************************************************************************)
(* The leveled methods: Verbose .. Error and Log, each with the suffixes   *)
(* none, 0, 1, 2, 3 and 4.                                                 *)
(***************************************************************************)
MaxMethodCalls == 2
Methods == {"Verbose", "Debug", "Info", "Warn", "Error", "Log"}
Kinds == {"log", "log0", "log1", "log2", "log3", "log4"}

\* the chain a, a/b, a/b/c with its handlers; a/b/c as created or after
\* L.SetLevel(VerboseLevel)
InitMethods ==
  /\ \E flags \in {0, SetLevelFlags(0, VerboseLevel)} :
       loggers = <<NewLogger(NameA, Nil, 1), NewLogger(NameAB, 1, 2),
                   [NewLogger(NameABC, 2, 3) EXCEPT !.flags = flags]>>
  /\ hslices = InitialHandlers
  /\ lin = [i \in 1..3 |-> [kind |-> "add", hs |-> InitialHandlers[i], L |-> i, tries |-> 0]]
  /\ registry = [n \in Names |-> IF n = NameA THEN 1 ELSE IF n = NameAB THEN 2 ELSE 3]
  /\ gstack = [t \in Threads |-> <<>>]
  /\ returned = {}
  /\ call = [t \in Threads |-> Idle]
  /\ hist = EmptyBag
  /\ events = <<>>
  /\ arrays = <<CallerArray>>
  /\ emits = [t \in Threads |-> <<>>]
  /\ visits = [t \in Threads |-> <<>>]
  /\ clock = 0
  /\ sets = 0

NextMethods ==
  \/ \E t \in Threads :
      \/ \E L \in Origins, method \in Methods, kind \in Kinds, level \in EventLevels :
           ~Panicked /\ clock < MaxMethodCalls /\ MethodCall(t, L, method, kind, level)
      \/ ~Panicked /\ createEvent1FromCaller(t)
      \/ ~Panicked /\ CreateEvent(t)
      \/ ~Panicked /\ doLogEventLevel(t)
      \/ ~Panicked /\ doLogEventHandlers(t)
      \/ ~Panicked /\ doLogEventEmit(t)
      \/ ~Panicked /\ doLogEventPropagate(t)
      \/ ~Panicked /\ putEvent(t)
  \/ ~Panicked /\ CallerRefill

SpecMethods == InitMethods /\ [][NextMethods]_vars

\* the event of the running call of t as its method was called: the level
\* of the method, the name of the logger, the message and the arguments
GivenEvent(t) ==
  [Name |-> loggers[call[t].L].name, Time |-> call[t].time,
   Level |-> CASE call[t].method = "Verbose" -> -30
               [] call[t].method = "Debug" -> -20
               [] call[t].method = "Info" -> -10
               [] call[t].method = "Warn" -> 0
               [] call[t].method = "Error" -> 10
               [] OTHER -> call[t].lvl,
   Msg |-> "msg",
   Args |-> call[t].given]

\* C27: every call of a leveled method (Verbose, Debug, Info, Warn, Error
\* or Log with an explicit level; suffix none, 0, 1, 2, 3 or 4) dispatches
\* an event, and through the dispatch and at every Emit that event has the
\* level of the method, the name of the logger, the given message and
\* exactly the given arguments in order.
MethodsDispatchGivenEvent ==
  \A t \in Threads :
    /\ call[t].pc # "panic"
    /\ Holding(t) => Contents(call[t].ev) = GivenEvent(t)
    /\ \A k \in 1..Len(emits[t]) : emits[t][k].e = GivenEvent(t)

(***************************************************************************)
(* ParseLevel.  A name is a sequence of characters; the characters are the *)
(* small and capital letters of the level names and of "fatal", the        *)
(* capital I with dot above (U+0130), a digit and a space.                 *)
(***************************************************************************)
\* unicode.ToLower on the capital letters of the model; every other
\* character of the model is its own lower case
SimpleLower ==
  [A |-> "a", B |-> "b", D |-> "d", E |-> "e", F |-> "f", G |-> "g",
   I |-> "i", L |-> "l", N |-> "n", O |-> "o", R |-> "r", S |-> "s",
   T |-> "t", U |-> "u", V |-> "v", W |-> "w",
   IDot |-> "i"]

\* a ToLower that leaves every character as it is
SameRune(c) == c

\* unicode.ToLower(c)
ToLowerRune(c) == IF c \in DOMAIN SimpleLower THEN SimpleLower[c] ELSE c

\* strings.ToLower(name)
ToLower(name) == [i \in 1..Len(name) |-> ToLowerRune(name[i])]

\* the keys of levelNameToValue
NameVerbose == <<"v", "e", "r", "b", "o", "s", "e">>
NameDebug == <<"d", "e", "b", "u", "g">>
NameInfo == <<"i", "n", "f", "o">>
NameWarn == <<"w", "a", "r", "n">>
NameWarning == <<"w", "a", "r", "n", "i", "n", "g">>
NameError == <<"e", "r", "r", "o", "r">>

\* levelNameToValue, as the set of its key/value pairs
levelNameToValue ==
  {<<NameVerbose, VerboseLevel>>, <<NameDebug, DebugLevel>>, <<NameInfo, InfoLevel>>,
   <<NameWarn, WarnLevel>>, <<NameWarning, WarnLevel>>, <<NameError, ErrorLevel>>}

\* ParseLevel(name): the pair of its results (Level, bool)
ParseLevel(name) ==
  IF \E e \in levelNameToValue : e[1] = ToLower(name)
    THEN <<(CHOOSE e \in levelNameToValue : e[1] = ToLower(name))[2], TRUE>>
    ELSE <<0, FALSE>>

\* the word w with capitals at the positions U; dotted: a capital i is
\* written U+0130
Capitalized(w, U, dotted) ==
  [i \in 1..Len(w) |->
     IF i \notin U THEN w[i]
     ELSE IF w[i] = "i" /\ dotted THEN "IDot"
     ELSE CHOOSE c \in DOMAIN SimpleLower \ {"IDot"} : SimpleLower[c] = w[i]]

\* names that are no level name in any letter case
OtherWords ==
  {<<>>, <<"f", "a", "t", "a", "l">>, <<"w", "a", "r", "n", "i", "n">>, <<"w", "a", "r", "n", "i", "n", "g", "s">>, <<"i", "n", "f">>,
   <<"i", "n", "f", "0">>, <<"i", "n", "f", "o", " ">>, <<" ", "w", "a", "r", "n">>, <<"e", "r", "r">>,
   <<"e">>}

\* the names given to ParseLevel: the keys of levelNameToValue and the
\* other words, in every letter case
ParseInputs ==
  OtherWords \cup
  UNION {{Capitalized(w, U, dotted) : U \in SUBSET (1..Len(w)), dotted \in BOOLEAN} :
           w \in {e[1] : e \in levelNameToValue}
                 \cup {x \in OtherWords : \A i \in 1..Len(x) : x[i] \notin {"0", " "}}}

\* a goroutine is about to call ParseLevel(name)
InitParse ==
  /\ loggers = <<>>
  /\ hslices = <<>>
  /\ lin = <<>>
  /\ registry = [n \in Names |-> Nil]
  /\ gstack = [t \in Threads |-> <<>>]
  /\ returned = {}
  /\ \E u \in Threads, name \in ParseInputs :
       call = [t \in Threads |->
                 IF t = u THEN [Idle EXCEPT !.op = "ParseLevel", !.pc = "call",
                                            !.given = name]
                 ELSE Idle]
  /\ hist = EmptyBag
  /\ events = <<>>
  /\ arrays = <<>>
  /\ emits = [t \in Threads |-> <<>>]
  /\ visits = [t \in Threads |-> <<>>]
  /\ clock = 0
  /\ sets = 0

\* value, ok := ParseLevel(name)
ParseLevelCall(t) ==
  /\ call[t].op = "ParseLevel"
  /\ call[t].pc = "call"
  /\ call' = [call EXCEPT ![t].pc = "ret",
                          ![t].lvl = ParseLevel(call[t].given)[1],
                          ![t].ok = ParseLevel(call[t].given)[2]]
  /\ UNCHANGED <<heapVars, regVars, hist, lin, events, arrays, emits, visits, clock, sets>>

NextParse == \E t \in Threads : ParseLevelCall(t)

SpecParse == InitParse /\ [][NextParse]_vars

CreatedWithDefaults ==
  \A r \in returned :
    /\ LevelOf(loggers[r.L].flags) = WarnLevel
    /\ PropagateOf(loggers[r.L].flags)
    /\ hslices[handlersPtr(r.L)] = <<>>

\* GetLogger("a/b/c") has returned a logger it created, with its parents
ReturnedCreatedChain ==
  \E r \in returned :
    /\ r.name = NameABC
    /\ loggers[r.L].name = NameABC
    /\ loggers[r.L].parent # Nil
    /\ registry[NameABC] = r.L

(***************************************************************************)
(* SetLevel with every level of the scale, among SetPropagate calls.       *)
(***************************************************************************)
MaxScaleSets == 3
Scale == {VerboseLevel, DebugLevel, InfoLevel, WarnLevel, ErrorLevel, FatalLevel}

NextScale ==
  \E t \in Threads :
    \/ \E L \in DOMAIN loggers, level \in Scale :
         sets < MaxScaleSets /\ SetLevelCall(t, L, level)
    \/ SetLevelLoad(t)
    \/ SetLevelCas(t)
    \/ \E L \in DOMAIN loggers, v \in BOOLEAN :
         sets < MaxScaleSets /\ SetPropagateCall(t, L, v)
    \/ SetPropagateLoad(t)
    \/ SetPropagateCas(t)

SpecScale == InitDispatch /\ [][NextScale]_vars

SetLevelAndSetPropagateApart ==
  [][\A t \in Threads :
       /\ (call[t].op = "SetLevel" /\ call'[t].op = "idle") =>
            PropagateOf(loggers'[call[t].L].flags) = PropagateOf(loggers[call[t].L].flags)
       /\ (call[t].op = "SetPropagate" /\ call'[t].op = "idle") =>
            LevelOf(loggers'[call[t].L].flags) = LevelOf(loggers[call[t].L].flags)]_vars

(***************************************************************************)
(* One SetLevel call and one SetPropagate call of two goroutines on the    *)
(* same logger, and no other writer.                                       *)
(***************************************************************************)
\* the flags of the logger when the two calls begin: as created, or after an
\* earlier SetPropagate(false), SetLevel(ErrorLevel) or SetLevel(InfoLevel)
RaceFlags ==
  {0, SetPropagateFlags(0, FALSE), SetLevelFlags(0, ErrorLevel),
   SetLevelFlags(SetPropagateFlags(0, FALSE), ErrorLevel), SetLevelFlags(0, InfoLevel)}

\* goroutine u has called L.SetLevel(level) and the other goroutine
\* L.SetPropagate(v) on logger a/b; none has read the flags yet
InitRace ==
  /\ \E flags \in RaceFlags :
       loggers = <<NewLogger(NameA, Nil, 1),
                   [NewLogger(NameAB, 1, 2) EXCEPT !.flags = flags],
                   NewLogger(NameABC, 2, 3)>>
  /\ hslices = InitialHandlers
  /\ lin = [i \in 1..3 |-> [kind |-> "add", hs |-> InitialHandlers[i], L |-> i, tries |-> 0]]
  /\ registry = [n \in Names |-> IF n = NameA THEN 1 ELSE IF n = NameAB THEN 2 ELSE 3]
  /\ gstack = [t \in Threads |-> <<>>]
  /\ returned = {}
  /\ \E u \in Threads, level \in Scale, v \in BOOLEAN :
       /\ call = [t \in Threads |->
                    IF t = u
                      THEN [Idle EXCEPT !.op = "SetLevel", !.pc = "load", !.L = 2,
                                        !.lvl = level]
                    ELSE IF t = CHOOSE w \in Threads : w # u
                      THEN [Idle EXCEPT !.op = "SetPropagate", !.pc = "load", !.L = 2,
                                        !.kind = IF v THEN "unset" ELSE "set"]
                    ELSE Idle]
       /\ hist = SetToBag({[kind |-> "SetLevel", L |-> 2, lvl |-> level],
                           [kind |-> "SetPropagate", L |-> 2, v |-> v]})
  /\ events = <<>>
  /\ arrays = <<CallerArray>>
  /\ emits = [t \in Threads |-> <<>>]
  /\ visits = [t \in Threads |-> <<>>]
  /\ clock = 0
  /\ sets = 2

NextRace ==
  \E t \in Threads :
    \/ SetLevelLoad(t)
    \/ SetLevelCas(t)
    \/ SetPropagateLoad(t)
    \/ SetPropagateCas(t)

SpecRace == InitRace /\ [][NextRace]_vars

\* C32: after a SetLevel(l) and a SetPropagate(v) on the same logger that
\* ran concurrently, with no other writer, have both returned, Level() of
\* the logger is l and Propagate() is v.
NoLostUpdate ==
  (\A t \in Threads : call[t].op = "idle") =>
    \A a \in BagToSet(hist) :
      /\ a.kind = "SetLevel" => LevelOf(loggers[a.L].flags) = a.lvl
      /\ a.kind = "SetPropagate" => PropagateOf(loggers[a.L].flags) = a.v

\* C33: when a GetLogger(name, opts...) call returns the logger L, a level
\* given through LoggerLevel is the level of L and a handler given through
\* LoggerHandler is in the handler set of L, whether or not the call raced
\* with another first GetLogger call for the name.
OptionsAppliedToReturned ==
  [][\A t \in Threads :
       (gstack[t] # <<>> /\ Len(gstack[t]) = 1 /\ Top(t).pc = "ret" /\ gstack'[t] = <<>>) =>
         /\ Has(Top(t).opts, "level") => LevelOf(loggers[Top(t).L].flags) = OptionLevel
         /\ Has(Top(t).opts, "handler") =>
              \E i \in 1..Len(hslices[handlersPtr(Top(t).L)]) :
                hslices[handlersPtr(Top(t).L)][i] = OptionHandler]_vars

\* C34: when the dispatch of a log call is over, during which no level, no
\* propagation flag and no handler set changed, every logger among the
\* logger of the call and the ancestors it reaches through loggers that
\* propagate has run its dispatch step, and each of them whose level the
\* event reaches has given the event to all its handlers, whether or not
\* the event reached the level of the logger of the call.
PropagatesBelowOwnLevel ==
  \A t \in Threads :
    Dispatched(t) =>
      \A A \in PropagateConnected(call[t].L) :
        /\ \E j \in 1..Len(visits[t]) : visits[t][j].L = A
        /\ call[t].lvl >= LevelOf(loggers[A].flags) =>
             EmittedBy(t, A) = hslices[handlersPtr(A)]

\* the dispatch is over of an event below the level of the logger of the
\* call, which gave it to no handler, and the handlers of its parent have
\* been given the event
ParentEmittedBelowOwnLevel ==
  \E t \in Threads :
    /\ Dispatched(t)
    /\ call[t].lvl < LevelOf(loggers[call[t].L].flags)
    /\ EmittedBy(t, call[t].L) = <<>>
    /\ EmittedBy(t, loggers[call[t].L].parent) # <<>>

\* C35: the slice a caller passed to a variadic method is on no free list,
\* no buffer that getArgs handed to a log call is the array of that slice,
\* and the buffer getArgs handed to a log call is the argument array of no
\* other log call in flight.
CallerSlicesNeverPooled ==
  /\ \A L \in DOMAIN loggers :
       \A i \in 1..loggers[L].freeArgs.len :
         loggers[L].freeArgs.arr[i].arr # CallerSlice.arr
  /\ \A t \in Threads :
       (call[t].op = "log" /\ call[t].kind # "log" /\ call[t].args.arr # Nil) =>
         /\ call[t].args.arr # CallerSlice.arr
         /\ \A u \in Threads \ {t} :
              call[u].op = "log" => call[u].args.arr # call[t].args.arr

(***************************************************************************)
(* Log calls made one after the other on one logger: a call starts only    *)
(* when no other call is in flight.                                        *)
(***************************************************************************)
MaxSerialCalls == 3

NextSerial ==
  \/ \E t \in Threads :
      \/ \E L \in Origins, kind \in LogKinds, level \in EventLevels :
           /\ ~Panicked
           /\ clock < MaxSerialCalls
           /\ \A u \in Threads : call[u].op = "idle"
           /\ LogCall(t, L, kind, level)
      \/ ~Panicked /\ createEvent1FromCaller(t)
      \/ ~Panicked /\ CreateEvent(t)
      \/ ~Panicked /\ doLogEventLevel(t)
      \/ ~Panicked /\ doLogEventHandlers(t)
      \/ ~Panicked /\ doLogEventEmit(t)
      \/ ~Panicked /\ doLogEventPropagate(t)
      \/ ~Panicked /\ putEvent(t)
  \/ ~Panicked /\ CallerRefill

SpecSerial == InitDispatch /\ [][NextSerial]_vars

\* the objects the refills of a free list have made while at most k of them
\* are in use: a list is refilled only when it is empty, that is when every
\* object made so far is in use
RECURSIVE RefillTotal(_, _, _)
RefillTotal(cap, made, k) ==
  IF made >= k THEN made
  ELSE RefillTotal(GrowCap(cap, cap + 1), made + GrowCap(cap, cap + 1), k)

PoolBound(k) == RefillTotal(0, 0, k)

\* C36: with at most one log call in flight at any time, once the calls made
\* so far have returned, freeArgs and freeEvents of every logger are no
\* longer than the number of objects a pool makes for one call in flight,
\* however many calls were made and of whatever kind.
FreeListsBounded ==
  (\A t \in Threads : call[t].op = "idle") =>
    \A L \in DOMAIN loggers :
      /\ loggers[L].freeArgs.len <= PoolBound(1)
      /\ loggers[L].freeEvents.len <= PoolBound(1)

(***************************************************************************)
(* The handler set under a fair scheduler: a goroutine that is inside a    *)
(* call takes its next step eventually.                                    *)
(***************************************************************************)
HandlersStep(t) ==
  \/ AddHandlersRead(t)
  \/ AddHandlersResize(t)
  \/ AddHandlersCopy(t)
  \/ AddHandlersCas(t)
  \/ RemoveHandlersRead(t)
  \/ RemoveHandlersFilter(t)
  \/ RemoveHandlersCas(t)
  \/ HandlersCopy(t)
  \/ HandlersReturn(t)

SpecContend ==
  InitHandlers /\ [][NextHandlers]_vars /\ \A t \in Threads : WF_vars(HandlersStep(t))

Swapping(t) == call[t].op \in {"AddHandlers", "RemoveHandlers"}

\* C37: a call fails a swap only when another call has completed one: the
\* retries of a call in flight, and of a call that completed its swap, are
\* no more than the swaps other calls completed before, so the first call of
\* a round to swap has failed none; and with the finitely many calls of a
\* behaviour, every AddHandlers and RemoveHandlers call returns.
SwapLoopsFinish ==
  /\ [](/\ \A t \in Threads : Swapping(t) => call[t].tries <= Len(lin) - 1
        /\ \A j \in 2..Len(lin) : lin[j].tries <= j - 2)
  /\ \A t \in Threads : Swapping(t) ~> (call[t].op = "idle")

\* two calls contended, one swap failed and was tried again, and both calls
\* have returned
ContendedCallsReturned ==
  /\ \A t \in Threads : call[t].op = "idle"
  /\ \E j \in DOMAIN lin : lin[j].tries >= 1
====================================================================
